---- MODULE Spec2Model ----
(***************************************************************************)
(* RustyXML: the streaming tokenizer (src/src/parser.rs), the entity codec *)
(* (src/src/lib.rs) and the tree builder (src/src/element_builder.rs).     *)
(*                                                                         *)
(* Representation.  A Rust String is a sequence of one-character strings;  *)
(* Option<T> is a sequence of length at most one (None == <<>>,            *)
(* Some(x) == <<x>>); a HashMap is a function on its key set; a Vec is a   *)
(* sequence; a Rust tuple is a tuple.                                      *)
(***************************************************************************)
EXTENDS Integers, Sequences, FiniteSets, TLC

VARIABLES
    parser,           \* the Parser under test
    overflow_checks,  \* build profile: TRUE when integer overflow panics (debug), FALSE when it wraps
    fed,              \* all text given to feed_str so far
    nfeeds,           \* number of feed_str calls so far
    pending,          \* text the caller still holds and will feed in chunks
    results,          \* the Some(..) values Parser::next has returned, in order
    returned,         \* Some(what next returned when last called), None when it has not been
                      \* called since the latest feed_str
    at,               \* Some(<<parser, c>>): parser state and character of the parse_character
                      \* call that ended the latest next, None when the queue ran dry
    panic,            \* Some(message) once the process has panicked
    builder,          \* the ElementBuilder under test
    handled,          \* the values given to handle_event so far
    outputs,          \* what handle_event returned for each of them
    before,           \* the builder as it was just before each of them
    codec_in,         \* the text given to the entity codec
    escaped,          \* Some(escape(codec_in)) once it has been called
    unescaped,        \* Some(unescape(codec_in)) once it has been called
    restored,         \* Some(unescape(escape(codec_in))) once it has been called
    tree,             \* Some(the Element that is rendered)
    rendered,         \* Some(what formatting the tree gave) once it has been formatted
    reparsed          \* Some(the outcome of parsing the rendered text) once it has been parsed

codecVars == <<codec_in, escaped, unescaped, restored>>
renderVars == <<tree, rendered, reparsed>>

vars == <<parser, overflow_checks, fed, nfeeds, pending, results, returned, at, panic,
          builder, handled, outputs, before, codecVars, renderVars>>

None == <<>>
Some(x) == <<x>>
is_none(o) == o = <<>>
is_some(o) == o # <<>>
unwrap(o) == o[1]

\* HashMap::insert
insert(m, k, v) == [x \in DOMAIN m \cup {k} |-> IF x = k THEN v ELSE m[x]]
EmptyMap == <<>>

Last(s) == s[Len(s)]
Front(s) == SubSeq(s, 1, Len(s) - 1)

WS == {" ", "\t", "\r", "\n"}

XML_NAME == <<"x", "m", "l">>
XMLNS_NAME == <<"x", "m", "l", "n", "s">>
\* "http://www.w3.org/XML/1998/namespace"
XML_NS == <<"h", "t", "t", "p", ":", "/", "/", "w", "w", "w", ".", "w", "3", ".", "o", "r", "g", "/", "X", "M", "L", "/", "1", "9", "9", "8", "/", "n", "a", "m", "e", "s", "p", "a", "c", "e">>
\* "http://www.w3.org/2000/xmlns/"
XMLNS_NS == <<"h", "t", "t", "p", ":", "/", "/", "w", "w", "w", ".", "w", "3", ".", "o", "r", "g", "/", "2", "0", "0", "0", "/", "x", "m", "l", "n", "s", "/">>

(***************************************************************************)
(* Entity codec, src/src/lib.rs                                            *)
(***************************************************************************)

\* str::find(char): index (1-based) of the first occurrence, 0 when absent
RECURSIVE find_from(_, _, _)
find_from(s, ch, i) ==
    IF i > Len(s) THEN 0
    ELSE IF s[i] = ch THEN i
    ELSE find_from(s, ch, i + 1)

find(s, ch) == find_from(s, ch, 1)

\* str::split(char): the pieces between the separators, at least one piece
RECURSIVE split(_, _)
split(s, sep) ==
    LET i == find(s, sep) IN
    IF i = 0 THEN <<s>>
    ELSE <<SubSeq(s, 1, i - 1)>> \o split(SubSeq(s, i + 1, Len(s)), sep)

\* escape_char with the ampersand left as it is
escape_char_amp_kept(c) ==
    CASE c = "<" -> <<"&", "l", "t", ";">>
      [] c = ">" -> <<"&", "g", "t", ";">>
      [] c = "'" -> <<"&", "a", "p", "o", "s", ";">>
      [] c = "\"" -> <<"&", "q", "u", "o", "t", ";">>
      [] OTHER -> <<c>>

escape_char(c) ==
    CASE c = "&" -> <<"&", "a", "m", "p", ";">>
      [] c = "<" -> <<"&", "l", "t", ";">>
      [] c = ">" -> <<"&", "g", "t", ";">>
      [] c = "'" -> <<"&", "a", "p", "o", "s", ";">>
      [] c = "\"" -> <<"&", "q", "u", "o", "t", ";">>
      [] OTHER -> <<c>>

RECURSIVE escape(_)
escape(input) ==
    IF input = <<>> THEN <<>>
    ELSE escape_char(Head(input)) \o escape(Tail(input))

\* The printable ASCII characters, code points 32 .. 126 (the grave accent,
\* which a TLA+ string cannot hold, is written "U+96")
ASCII == <<" ", "!", "\"", "#", "$", "%", "&", "'", "(", ")", "*", "+", ",", "-", ".", "/", "0", "1", "2", "3", "4", "5", "6", "7", "8", "9", ":", ";", "<", "=", ">", "?", "@", "A", "B", "C", "D", "E", "F", "G", "H", "I", "J", "K", "L", "M", "N", "O", "P", "Q", "R", "S", "T", "U", "V", "W", "X", "Y", "Z", "[", "\\", "]", "^", "_", "U+96", "a", "b", "c", "d", "e", "f", "g", "h", "i", "j", "k", "l", "m", "n", "o", "p", "q", "r", "s", "t", "u", "v", "w", "x", "y", "z", "{", "|", "}", "~">>

\* char::to_digit(radix): the digit's value, -1 when c is no digit of the radix
to_digit(c, radix) ==
    LET i == find(ASCII, c)
        v == IF i >= 17 /\ i <= 26 THEN i - 17            \* '0' .. '9'
             ELSE IF i >= 34 /\ i <= 59 THEN i - 34 + 10  \* 'A' .. 'Z'
             ELSE IF i >= 66 /\ i <= 91 THEN i - 66 + 10  \* 'a' .. 'z'
             ELSE -1
    IN IF v >= 0 /\ v < radix THEN v ELSE -1

\* One past the largest Unicode scalar value.  Every number above 0x10FFFF is
\* rejected the same way, whether or not it still fits in a u32, so the
\* accumulator saturates here.
ScalarLimit == 1114112

RECURSIVE digits_value(_, _, _)
digits_value(digits, radix, acc) ==
    IF digits = <<>> THEN Some(acc)
    ELSE LET d == to_digit(Head(digits), radix) IN
         IF d < 0 THEN None
         ELSE LET n == acc * radix + d IN
              digits_value(Tail(digits), radix, IF n > ScalarLimit THEN ScalarLimit ELSE n)

\* u32::from_str_radix(src, radix).ok(): an optional leading '+', then at
\* least one digit
from_str_radix(src, radix) ==
    IF src = <<>> THEN None
    ELSE IF Head(src) \in {"+", "-"} /\ Len(src) = 1 THEN None
    ELSE IF Head(src) = "+" THEN digits_value(Tail(src), radix, 0)
    ELSE digits_value(src, radix, 0)

\* char_from_u32 with no check for surrogates
char_from_u32_any(n) ==
    IF n >= 32 /\ n <= 126 THEN Some(ASCII[n - 31])
    ELSE IF n = 9 THEN Some("\t")
    ELSE IF n = 10 THEN Some("\n")
    ELSE IF n = 13 THEN Some("\r")
    ELSE IF n >= ScalarLimit THEN None
    ELSE Some("U+" \o ToString(n))

\* char::from_u32: a character outside printable ASCII, tab, LF and CR is
\* written "U+<decimal code point>"
char_from_u32(n) ==
    IF n >= 32 /\ n <= 126 THEN Some(ASCII[n - 31])
    ELSE IF n = 9 THEN Some("\t")
    ELSE IF n = 10 THEN Some("\n")
    ELSE IF n = 13 THEN Some("\r")
    ELSE IF n >= 55296 /\ n <= 57343 THEN None
    ELSE IF n >= ScalarLimit THEN None
    ELSE Some("U+" \o ToString(n))

Ok(v) == [ok |-> TRUE, val |-> v]
Err(v) == [ok |-> FALSE, val |-> v]

\* The character an entity name stands for, None for an unknown entity
entity_char(ent) ==
    CASE ent = <<"q", "u", "o", "t">> -> Some("\"")
      [] ent = <<"a", "p", "o", "s">> -> Some("'")
      [] ent = <<"g", "t">> -> Some(">")
      [] ent = <<"l", "t">> -> Some("<")
      [] ent = <<"a", "m", "p">> -> Some("&")
      [] OTHER ->
           LET val == IF Len(ent) >= 2 /\ SubSeq(ent, 1, 2) = <<"#", "x">>
                        THEN from_str_radix(SubSeq(ent, 3, Len(ent)), 16)
                      ELSE IF Len(ent) >= 1 /\ ent[1] = "#"
                        THEN from_str_radix(SubSeq(ent, 2, Len(ent)), 10)
                      ELSE None
           IN IF is_none(val) THEN None ELSE char_from_u32(unwrap(val))

\* The loop of unescape over the pieces after the first '&'
RECURSIVE unescape_subs(_, _)
unescape_subs(subs, result) ==
    IF subs = <<>> THEN Ok(result)
    ELSE LET sub == Head(subs)
             idx == find(sub, ";")
         IN IF idx = 0 THEN Err(<<"&">> \o sub)
            ELSE LET ent == SubSeq(sub, 1, idx - 1)
                     ch == entity_char(ent)
                 IN IF is_none(ch) THEN Err(<<"&">> \o ent \o <<";">>)
                    ELSE unescape_subs(Tail(subs),
                                       result \o ch \o SubSeq(sub, idx + 1, Len(sub)))

unescape(input) ==
    LET it == split(input, "&") IN
    unescape_subs(Tail(it), Head(it))

(***************************************************************************)
(* Tokenizer, src/src/parser.rs                                            *)
(***************************************************************************)

States == {"OutsideTag", "TagOpened", "InProcessingInstructions", "InTagName",
           "InCloseTagName", "InTag", "InAttrName", "InAttrValue",
           "ExpectDelimiter", "ExpectClose", "ExpectSpaceOrClose",
           "InExclamationMark", "InCDATAOpening", "InCDATA", "InCommentOpening",
           "InComment1", "InComment2", "InDoctype"}

\* Event variants
PI(text) == [type |-> "PI", text |-> text]
ElementStart(name, ns, prefix, attributes) ==
    [type |-> "ElementStart", name |-> name, ns |-> ns, prefix |-> prefix,
     attributes |-> attributes]
ElementEnd(name, ns, prefix) ==
    [type |-> "ElementEnd", name |-> name, ns |-> ns, prefix |-> prefix]
Characters(text) == [type |-> "Characters", text |-> text]
CDATA(text) == [type |-> "CDATA", text |-> text]
Comment(text) == [type |-> "Comment", text |-> text]

ParserError(line, col, msg) == [line |-> line, col |-> col, msg |-> msg]

\* Parser::new
NewParser ==
    [line |-> 1,
     col |-> 0,
     has_error |-> FALSE,
     data |-> <<>>,
     buf |-> <<>>,
     namespaces |-> <<(XML_NAME :> XML_NS) @@ (XMLNS_NAME :> XMLNS_NS)>>,
     attributes |-> <<>>,
     st |-> "OutsideTag",
     name |-> None,
     attr |-> None,
     delim |-> None,
     level |-> 0]

\* Mutant: feeding restarts the tokenizer outside any tag
feed_str_restart(p, data) ==
    [p EXCEPT !.data = p.data \o data, !.buf = <<>>, !.st = "OutsideTag"]

\* Parser::feed_str
feed_str(p, data) == [p EXCEPT !.data = p.data \o data]

\* parse_qname: split at the first ':'
parse_qname(qname) ==
    LET i == find(qname, ":") IN
    IF i # 0 THEN <<Some(SubSeq(qname, 1, i - 1)), SubSeq(qname, i + 1, Len(qname))>>
    ELSE <<None, qname>>

\* unescape_owned that leaves every text as it is
unescape_owned_raw(input) == Ok(input)

unescape_owned(input) ==
    IF find(input, "&") = 0 THEN Ok(input) ELSE unescape(input)

\* Parser::namespace_for_prefix: the scopes are searched from the top down
RECURSIVE ns_lookup(_, _, _)
ns_lookup(namespaces, prefix, i) ==
    IF i = 0 THEN None
    ELSE IF prefix \in DOMAIN namespaces[i]
         THEN IF namespaces[i][prefix] = <<>> THEN None
              ELSE Some(namespaces[i][prefix])
         ELSE ns_lookup(namespaces, prefix, i - 1)

\* Mutant: an empty binding does not stop the search, the outer scopes are
\* searched as well
RECURSIVE ns_lookup_skip_empty(_, _, _)
ns_lookup_skip_empty(namespaces, prefix, i) ==
    IF i = 0 THEN None
    ELSE IF prefix \in DOMAIN namespaces[i] /\ namespaces[i][prefix] # <<>>
         THEN Some(namespaces[i][prefix])
         ELSE ns_lookup_skip_empty(namespaces, prefix, i - 1)

namespace_for_prefix_skip_empty(p, prefix) ==
    ns_lookup_skip_empty(p.namespaces, prefix, Len(p.namespaces))

namespace_for_prefix(p, prefix) == ns_lookup(p.namespaces, prefix, Len(p.namespaces))

\* What parse_character returns, with the parser as it leaves it:
\* Ok(None), Ok(Some(event)), Err(ParserError), or a panic of the process
StepNone(p) == [p |-> p, kind |-> "none"]
StepEvent(p, e) == [p |-> p, kind |-> "event", ev |-> e]
\* Parser::error
error(p, msg) == [p |-> p, kind |-> "error", err |-> ParserError(p.line, p.col, msg)]
StepPanic(p, msg) == [p |-> p, kind |-> "panic", msg |-> msg]

\* Mutant: nothing is popped
pop_scope_keep(namespaces) == namespaces

\* Vec::pop on the scope stack (a no-op on an empty Vec)
pop_scope(namespaces) == IF namespaces = <<>> THEN <<>> ELSE Front(namespaces)

\* The namespace of a tag name: the default namespace for an unprefixed name,
\* None also when an explicit prefix is unbound (the callers then fail)
tag_ns(p, prefix) ==
    IF is_none(prefix) THEN namespace_for_prefix(p, <<>>)
    ELSE namespace_for_prefix(p, unwrap(prefix))

\* Mutant: an unbound prefix is not reported, the name gets no namespace
tag_unbound_never(p, prefix) == FALSE

tag_unbound(p, prefix) == is_some(prefix) /\ is_none(namespace_for_prefix(p, unwrap(prefix)))

\* Mutant: a line feed ends the text and returns it
outside_tag_line_flush(p, c) ==
    IF c = "<" /\ p.buf = <<>> THEN StepNone([p EXCEPT !.st = "TagOpened"])
    ELSE IF c = "<" \/ c = "\n" THEN
        LET p1 == [p EXCEPT !.st = IF c = "<" THEN "TagOpened" ELSE p.st, !.buf = <<>>]
            u == unescape_owned(p.buf)
        IN IF u.ok THEN StepEvent(p1, Characters(u.val))
           ELSE error(p1, "Found invalid entity")
    ELSE StepNone([p EXCEPT !.buf = Append(p.buf, c)])

outside_tag(p, c) ==
    IF c = "<" /\ p.buf = <<>> THEN StepNone([p EXCEPT !.st = "TagOpened"])
    ELSE IF c = "<" THEN
        LET p1 == [p EXCEPT !.st = "TagOpened", !.buf = <<>>]
            u == unescape_owned(p.buf)
        IN IF u.ok THEN StepEvent(p1, Characters(u.val))
           ELSE error(p1, "Found invalid entity")
    ELSE StepNone([p EXCEPT !.buf = Append(p.buf, c)])

tag_opened(p, c) ==
    CASE c = "?" -> StepNone([p EXCEPT !.st = "InProcessingInstructions"])
      [] c = "!" -> StepNone([p EXCEPT !.st = "InExclamationMark"])
      [] c = "/" -> StepNone([p EXCEPT !.st = "InCloseTagName"])
      [] OTHER -> StepNone([p EXCEPT !.buf = Append(p.buf, c), !.st = "InTagName"])

\* Mutant: the end of a processing instruction leaves level as it is
in_processing_instructions_level_kept(p, c) ==
    IF c = "?" THEN StepNone([p EXCEPT !.level = 1, !.buf = Append(p.buf, c)])
    ELSE IF c = ">" /\ p.level = 1 THEN
        StepEvent([p EXCEPT !.st = "OutsideTag", !.buf = <<>>],
                  PI(IF p.buf = <<>> THEN <<>> ELSE Front(p.buf)))
    ELSE StepNone([p EXCEPT !.buf = Append(p.buf, c)])

in_processing_instructions(p, c) ==
    IF c = "?" THEN StepNone([p EXCEPT !.level = 1, !.buf = Append(p.buf, c)])
    ELSE IF c = ">" /\ p.level = 1 THEN
        LET popped == IF p.buf = <<>> THEN <<>> ELSE Front(p.buf) IN
        StepEvent([p EXCEPT !.level = 0, !.st = "OutsideTag", !.buf = <<>>], PI(popped))
    ELSE StepNone([p EXCEPT !.buf = Append(p.buf, c)])

\* Mutant: whitespace after the name does not store the name
in_tag_name_unnamed(p, c) ==
    IF c \in {"/", ">"} THEN
        LET q == parse_qname(p.buf)
            p1 == [p EXCEPT !.buf = <<>>]
        IN IF tag_unbound(p1, q[1])
           THEN error(p1, "Unbound namespace prefix in tag name")
           ELSE LET p2 == [p1 EXCEPT !.namespaces = Append(p1.namespaces, EmptyMap)]
                IN StepEvent(IF c = "/"
                             THEN [p2 EXCEPT !.name = Some(q), !.st = "ExpectClose"]
                             ELSE [p2 EXCEPT !.st = "OutsideTag"],
                             ElementStart(q[2], tag_ns(p1, q[1]), q[1], EmptyMap))
    ELSE IF c \in WS THEN
        StepNone([p EXCEPT !.namespaces = Append(p.namespaces, EmptyMap),
                           !.buf = <<>>,
                           !.st = "InTag"])
    ELSE StepNone([p EXCEPT !.buf = Append(p.buf, c)])

in_tag_name(p, c) ==
    IF c \in {"/", ">"} THEN
        LET q == parse_qname(p.buf)
            prefix == q[1]
            name == q[2]
            p1 == [p EXCEPT !.buf = <<>>]
        IN IF tag_unbound(p1, prefix)
           THEN error(p1, "Unbound namespace prefix in tag name")
           ELSE LET ns == tag_ns(p1, prefix)
                    p2 == [p1 EXCEPT !.namespaces = Append(p1.namespaces, EmptyMap)]
                    p3 == IF c = "/"
                          THEN [p2 EXCEPT !.name = Some(<<prefix, name>>), !.st = "ExpectClose"]
                          ELSE [p2 EXCEPT !.st = "OutsideTag"]
                IN StepEvent(p3, ElementStart(name, ns, prefix, EmptyMap))
    ELSE IF c \in WS THEN
        StepNone([p EXCEPT !.namespaces = Append(p.namespaces, EmptyMap),
                           !.name = Some(parse_qname(p.buf)),
                           !.buf = <<>>,
                           !.st = "InTag"])
    ELSE StepNone([p EXCEPT !.buf = Append(p.buf, c)])

\* Mutant: the scope is popped before the name is resolved
in_close_tag_name_popped_first(p, c) ==
    IF c \in WS \cup {">"} THEN
        LET q == parse_qname(p.buf)
            p1 == [p EXCEPT !.buf = <<>>, !.namespaces = pop_scope(p.namespaces)]
        IN IF tag_unbound(p1, q[1])
           THEN error(p1, "Unbound namespace prefix in tag name")
           ELSE StepEvent([p1 EXCEPT !.st = IF c = ">" THEN "OutsideTag"
                                            ELSE "ExpectSpaceOrClose"],
                          ElementEnd(q[2], tag_ns(p1, q[1]), q[1]))
    ELSE StepNone([p EXCEPT !.buf = Append(p.buf, c)])

\* Mutant: after whitespace the state stays InCloseTagName
in_close_tag_name_stay(p, c) ==
    IF c \in WS \cup {">"} THEN
        LET q == parse_qname(p.buf)
            p1 == [p EXCEPT !.buf = <<>>]
        IN IF tag_unbound(p1, q[1])
           THEN error(p1, "Unbound namespace prefix in tag name")
           ELSE StepEvent([p1 EXCEPT !.namespaces = pop_scope(p1.namespaces),
                                     !.st = IF c = ">" THEN "OutsideTag"
                                            ELSE "InCloseTagName"],
                          ElementEnd(q[2], tag_ns(p1, q[1]), q[1]))
    ELSE StepNone([p EXCEPT !.buf = Append(p.buf, c)])

in_close_tag_name(p, c) ==
    IF c \in WS \cup {">"} THEN
        LET q == parse_qname(p.buf)
            prefix == q[1]
            name == q[2]
            p1 == [p EXCEPT !.buf = <<>>]
        IN IF tag_unbound(p1, prefix)
           THEN error(p1, "Unbound namespace prefix in tag name")
           ELSE LET ns == tag_ns(p1, prefix)
                    p2 == [p1 EXCEPT !.namespaces = pop_scope(p1.namespaces),
                                     !.st = IF c = ">" THEN "OutsideTag"
                                            ELSE "ExpectSpaceOrClose"]
                IN StepEvent(p2, ElementEnd(name, ns, prefix))
    ELSE StepNone([p EXCEPT !.buf = Append(p.buf, c)])

\* Mutant: a repeated key silently replaces the earlier value
RECURSIVE map_attributes_overwrite(_, _, _)
map_attributes_overwrite(p, attributes, attributes_map) ==
    IF attributes = <<>> THEN Ok(attributes_map)
    ELSE LET a == Head(attributes)
             name == a[1]
             pre == a[2]
             value == a[3]
         IN IF is_some(pre) /\ is_none(namespace_for_prefix(p, unwrap(pre)))
            THEN Err("Unbound namespace prefix in attribute name")
            ELSE LET ns == IF is_none(pre) THEN None
                           ELSE namespace_for_prefix(p, unwrap(pre))
                 IN map_attributes_overwrite(p, Tail(attributes),
                                             insert(attributes_map, <<name, ns>>, value))

\* The loop of in_tag over the raw attributes (name, prefix, value): the map
\* built so far, or the error that stopped it
RECURSIVE map_attributes(_, _, _)
map_attributes(p, attributes, attributes_map) ==
    IF attributes = <<>> THEN Ok(attributes_map)
    ELSE LET a == Head(attributes)
             name == a[1]
             pre == a[2]
             value == a[3]
         IN IF is_some(pre) /\ is_none(namespace_for_prefix(p, unwrap(pre)))
            THEN Err("Unbound namespace prefix in attribute name")
            ELSE LET ns == IF is_none(pre) THEN None
                           ELSE namespace_for_prefix(p, unwrap(pre))
                     key == <<name, ns>>
                 IN IF key \in DOMAIN attributes_map
                    THEN Err("Duplicate attribute")
                    ELSE map_attributes(p, Tail(attributes), insert(attributes_map, key, value))

in_tag(p, c) ==
    IF c \in {"/", ">"} THEN
        IF is_none(p.name) THEN StepPanic([p EXCEPT !.attributes = <<>>],
                                          "Internal error: No element name set")
        ELSE
        LET attributes == p.attributes
            prefix == unwrap(p.name)[1]
            name == unwrap(p.name)[2]
            p1 == [p EXCEPT !.attributes = <<>>, !.name = None]
        IN IF tag_unbound(p1, prefix)
           THEN error(p1, "Unbound namespace prefix in tag name")
           ELSE LET ns == tag_ns(p1, prefix)
                    m == map_attributes(p1, attributes, EmptyMap)
                IN IF ~m.ok THEN error(p1, m.val)
                   ELSE LET p2 == IF c = "/"
                                  THEN [p1 EXCEPT !.name = Some(<<prefix, name>>),
                                                  !.st = "ExpectClose"]
                                  ELSE [p1 EXCEPT !.st = "OutsideTag"]
                        IN StepEvent(p2, ElementStart(name, ns, prefix, m.val))
    ELSE IF c \in WS THEN StepNone(p)
    ELSE StepNone([p EXCEPT !.buf = Append(p.buf, c), !.st = "InAttrName"])

in_attr_name(p, c) ==
    IF c = "=" THEN
        StepNone([p EXCEPT !.level = 0, !.attr = Some(parse_qname(p.buf)),
                           !.buf = <<>>, !.st = "ExpectDelimiter"])
    ELSE IF c \in WS THEN StepNone([p EXCEPT !.level = 1])
    ELSE IF p.level = 0 THEN StepNone([p EXCEPT !.buf = Append(p.buf, c)])
    ELSE error(p, "Space occured in attribute name")

in_attr_value(p, c) ==
    IF is_none(p.delim)
    THEN StepPanic(p, "Internal error: In attribute value, but no delimiter set")
    ELSE IF c = unwrap(p.delim) THEN
        LET p1 == [p EXCEPT !.delim = None, !.st = "InTag", !.attr = None] IN
        IF is_none(p.attr)
        THEN StepPanic(p1, "Internal error: In attribute value, but no attribute name set")
        ELSE
        LET prefix == unwrap(p.attr)[1]
            name == unwrap(p.attr)[2]
            p2 == [p1 EXCEPT !.buf = <<>>]
            u == unescape_owned(p.buf)
        IN IF ~u.ok THEN error(p2, "Found invalid entity")
           ELSE IF p2.namespaces = <<>>
           THEN StepPanic(p2, "Internal error: Empty namespace stack")
           ELSE LET value == u.val
                    n == Len(p2.namespaces)
                    last == p2.namespaces[n]
                    last1 == IF is_none(prefix) /\ name = XMLNS_NAME
                               THEN insert(last, <<>>, value)
                             ELSE IF is_some(prefix) /\ unwrap(prefix) = XMLNS_NAME
                               THEN insert(last, name, value)
                             ELSE last
                IN StepNone([p2 EXCEPT !.namespaces[n] = last1,
                                       !.attributes = Append(p2.attributes,
                                                             <<name, prefix, value>>)])
    ELSE StepNone([p EXCEPT !.buf = Append(p.buf, c)])

expect_delimiter(p, c) ==
    IF c \in {"\"", "'"} THEN StepNone([p EXCEPT !.delim = Some(c), !.st = "InAttrValue"])
    ELSE IF c \in WS THEN StepNone(p)
    ELSE error(p, "Attribute value not enclosed in ' or \"")

\* Mutant: the scope of a self-closing tag is never popped
expect_close_no_pop(p, c) ==
    IF c = ">" THEN
        LET p1 == [p EXCEPT !.st = "OutsideTag", !.name = None] IN
        IF is_none(p.name) THEN StepPanic(p1, "Internal error: No element name set")
        ELSE
        LET prefix == unwrap(p.name)[1]
            name == unwrap(p.name)[2]
        IN IF tag_unbound(p1, prefix)
           THEN error(p1, "Unbound namespace prefix in tag name")
           ELSE StepEvent(p1, ElementEnd(name, tag_ns(p1, prefix), prefix))
    ELSE error(p, "Expected '>' to close tag")

\* Mutant: the scope is popped before the name is resolved
expect_close_pop_first(p, c) ==
    IF c = ">" THEN
        LET p1 == [p EXCEPT !.st = "OutsideTag", !.name = None,
                            !.namespaces = pop_scope(p.namespaces)] IN
        IF is_none(p.name) THEN StepPanic(p1, "Internal error: No element name set")
        ELSE
        LET prefix == unwrap(p.name)[1]
            name == unwrap(p.name)[2]
        IN IF tag_unbound(p1, prefix)
           THEN error(p1, "Unbound namespace prefix in tag name")
           ELSE StepEvent(p1, ElementEnd(name, tag_ns(p1, prefix), prefix))
    ELSE error(p, "Expected '>' to close tag")

expect_close(p, c) ==
    IF c = ">" THEN
        LET p1 == [p EXCEPT !.st = "OutsideTag", !.name = None] IN
        IF is_none(p.name) THEN StepPanic(p1, "Internal error: No element name set")
        ELSE
        LET prefix == unwrap(p.name)[1]
            name == unwrap(p.name)[2]
        IN IF tag_unbound(p1, prefix)
           THEN error(p1, "Unbound namespace prefix in tag name")
           ELSE StepEvent([p1 EXCEPT !.namespaces = pop_scope(p1.namespaces)],
                          ElementEnd(name, tag_ns(p1, prefix), prefix))
    ELSE error(p, "Expected '>' to close tag")

expect_space_or_close(p, c) ==
    IF c \in WS THEN StepNone(p)
    ELSE IF c = ">" THEN StepNone([p EXCEPT !.st = "OutsideTag"])
    ELSE error(p, "Expected '>' to close tag, or LWS")

in_exclamation_mark(p, c) ==
    CASE c = "-" -> StepNone([p EXCEPT !.st = "InCommentOpening"])
      [] c = "[" -> StepNone([p EXCEPT !.st = "InCDATAOpening"])
      [] c = "D" -> StepNone([p EXCEPT !.st = "InDoctype"])
      [] OTHER -> error(p, "Malformed XML")

CDATA_PATTERN == <<"C", "D", "A", "T", "A", "[">>
DOCTYPE_PATTERN == <<"O", "C", "T", "Y", "P", "E">>

in_cdata_opening(p, c) ==
    IF p.level >= Len(CDATA_PATTERN) THEN StepPanic(p, "index out of bounds")
    ELSE IF c = CDATA_PATTERN[p.level + 1] THEN
        IF p.level + 1 = 6 THEN StepNone([p EXCEPT !.level = 0, !.st = "InCDATA"])
        ELSE StepNone([p EXCEPT !.level = p.level + 1])
    ELSE error(p, "Invalid CDATA opening sequence")

\* self.level += 1 on the u8 counter: a panic with overflow checks, else a wrap
U8Max == 255

\* in_cdata with the run of ']' not reset by another character
in_cdata_no_reset(p, c) ==
    IF c = "]" THEN
        IF p.level = U8Max /\ overflow_checks
        THEN StepPanic([p EXCEPT !.buf = Append(p.buf, c)], "attempt to add with overflow")
        ELSE StepNone([p EXCEPT !.buf = Append(p.buf, c),
                               !.level = (p.level + 1) % (U8Max + 1)])
    ELSE IF c = ">" /\ p.level >= 2 THEN
        LET p1 == [p EXCEPT !.st = "OutsideTag", !.level = 0] IN
        IF Len(p.buf) < 2 THEN StepPanic(p1, "attempt to subtract with overflow")
        ELSE StepEvent([p1 EXCEPT !.buf = <<>>], CDATA(SubSeq(p.buf, 1, Len(p.buf) - 2)))
    ELSE StepNone([p EXCEPT !.buf = Append(p.buf, c)])

in_cdata(p, c) ==
    IF c = "]" THEN
        IF p.level = U8Max /\ overflow_checks
        THEN StepPanic([p EXCEPT !.buf = Append(p.buf, c)], "attempt to add with overflow")
        ELSE StepNone([p EXCEPT !.buf = Append(p.buf, c),
                               !.level = (p.level + 1) % (U8Max + 1)])
    ELSE IF c = ">" /\ p.level >= 2 THEN
        LET p1 == [p EXCEPT !.st = "OutsideTag", !.level = 0] IN
        IF Len(p.buf) < 2 THEN StepPanic(p1, "attempt to subtract with overflow")
        ELSE StepEvent([p1 EXCEPT !.buf = <<>>], CDATA(SubSeq(p.buf, 1, Len(p.buf) - 2)))
    ELSE StepNone([p EXCEPT !.buf = Append(p.buf, c), !.level = 0])

in_comment_opening(p, c) ==
    IF c = "-" THEN StepNone([p EXCEPT !.st = "InComment1", !.level = 0])
    ELSE error(p, "Expected 2nd '-' to start comment")

\* in_comment1 with the count of '-' not reset by another character
in_comment1_no_reset(p, c) ==
    LET level == IF c = "-" THEN p.level + 1 ELSE p.level IN
    IF level = 2
    THEN StepNone([p EXCEPT !.level = 0, !.st = "InComment2", !.buf = Append(p.buf, c)])
    ELSE StepNone([p EXCEPT !.level = level, !.buf = Append(p.buf, c)])

in_comment1(p, c) ==
    LET level == IF c = "-" THEN p.level + 1 ELSE 0 IN
    IF level = 2
    THEN StepNone([p EXCEPT !.level = 0, !.st = "InComment2", !.buf = Append(p.buf, c)])
    ELSE StepNone([p EXCEPT !.level = level, !.buf = Append(p.buf, c)])

in_comment2(p, c) ==
    IF c # ">" THEN error(p, "No more than one adjacent '-' allowed in a comment")
    ELSE LET p1 == [p EXCEPT !.st = "OutsideTag"] IN
         IF Len(p.buf) < 2 THEN StepPanic(p1, "attempt to subtract with overflow")
         ELSE StepEvent([p1 EXCEPT !.buf = <<>>], Comment(SubSeq(p.buf, 1, Len(p.buf) - 2)))

in_doctype(p, c) ==
    IF p.level <= 5 THEN
        IF c = DOCTYPE_PATTERN[p.level + 1] THEN StepNone([p EXCEPT !.level = p.level + 1])
        ELSE error(p, "Invalid DOCTYPE")
    ELSE IF p.level = 6 THEN
        IF c \in WS THEN StepNone([p EXCEPT !.level = p.level + 1])
        ELSE error(p, "Invalid DOCTYPE")
    ELSE IF c = ">" THEN StepNone([p EXCEPT !.level = 0, !.st = "OutsideTag"])
    ELSE StepNone(p)

parse_character(p, c) ==
    CASE p.st = "OutsideTag" -> outside_tag(p, c)
      [] p.st = "TagOpened" -> tag_opened(p, c)
      [] p.st = "InProcessingInstructions" -> in_processing_instructions(p, c)
      [] p.st = "InTagName" -> in_tag_name(p, c)
      [] p.st = "InCloseTagName" -> in_close_tag_name(p, c)
      [] p.st = "InTag" -> in_tag(p, c)
      [] p.st = "InAttrName" -> in_attr_name(p, c)
      [] p.st = "InAttrValue" -> in_attr_value(p, c)
      [] p.st = "ExpectDelimiter" -> expect_delimiter(p, c)
      [] p.st = "ExpectClose" -> expect_close(p, c)
      [] p.st = "ExpectSpaceOrClose" -> expect_space_or_close(p, c)
      [] p.st = "InExclamationMark" -> in_exclamation_mark(p, c)
      [] p.st = "InCDATAOpening" -> in_cdata_opening(p, c)
      [] p.st = "InCDATA" -> in_cdata(p, c)
      [] p.st = "InCommentOpening" -> in_comment_opening(p, c)
      [] p.st = "InComment1" -> in_comment1(p, c)
      [] p.st = "InComment2" -> in_comment2(p, c)
      [] p.st = "InDoctype" -> in_doctype(p, c)

\* next_pass with col not set back to zero by a line feed
next_pass_col_kept(p) ==
    LET c == Head(p.data)
        p1 == [p EXCEPT !.data = Tail(p.data),
                        !.line = IF c = "\n" THEN p.line + 1 ELSE p.line,
                        !.col = p.col + 1]
    IN \* s is the outcome of the one call self.parse_character(c)
       CHOOSE r \in
         {CASE s.kind = "none" ->
                 [p |-> s.p, done |-> FALSE, ret |-> None, at |-> None, panic |-> None]
            [] s.kind = "event" ->
                 [p |-> s.p, done |-> TRUE, ret |-> Some(Ok(s.ev)),
                  at |-> Some(<<p1, c>>), panic |-> None]
            [] s.kind = "error" ->
                 [p |-> [s.p EXCEPT !.has_error = TRUE], done |-> TRUE,
                  ret |-> Some(Err(s.err)), at |-> Some(<<p1, c>>), panic |-> None]
            [] s.kind = "panic" ->
                 [p |-> s.p, done |-> TRUE, ret |-> None, at |-> Some(<<p1, c>>),
                  panic |-> Some(s.msg)]
          : s \in {parse_character(p1, c)}} : TRUE

\* One pass of the loop of Iterator::next over a non-empty queue: the
\* character is taken, line and col are advanced, parse_character is called.
\* done tells that the loop returns; ret is the value returned, at the parser
\* state and the character given to the deciding parse_character call.
next_pass(p) ==
    LET c == Head(p.data)
        p1 == [p EXCEPT !.data = Tail(p.data),
                        !.line = IF c = "\n" THEN p.line + 1 ELSE p.line,
                        !.col = IF c = "\n" THEN 0 ELSE p.col + 1]
    IN \* s is the outcome of the one call self.parse_character(c)
       CHOOSE r \in
         {CASE s.kind = "none" ->
                 [p |-> s.p, done |-> FALSE, ret |-> None, at |-> None, panic |-> None]
            [] s.kind = "event" ->
                 [p |-> s.p, done |-> TRUE, ret |-> Some(Ok(s.ev)),
                  at |-> Some(<<p1, c>>), panic |-> None]
            [] s.kind = "error" ->
                 [p |-> [s.p EXCEPT !.has_error = TRUE], done |-> TRUE,
                  ret |-> Some(Err(s.err)), at |-> Some(<<p1, c>>), panic |-> None]
            [] s.kind = "panic" ->
                 [p |-> s.p, done |-> TRUE, ret |-> None, at |-> Some(<<p1, c>>),
                  panic |-> Some(s.msg)]
          : s \in {parse_character(p1, c)}} : TRUE

\* At most n passes of the loop, one after the other, stopping at the first
\* that returns.  The passes are taken half by half, which keeps the
\* evaluation shallow on a long queue; the outcome is that of n passes in
\* a row.
RECURSIVE next_passes(_, _)
next_passes(p, n) ==
    IF n = 0 \/ p.data = <<>>
      THEN [p |-> p, done |-> FALSE, ret |-> None, at |-> None, panic |-> None]
    ELSE IF n = 1 THEN next_pass(p)
    ELSE CHOOSE r \in
           {IF l.done THEN l ELSE next_passes(l.p, n - (n \div 2))
            : l \in {next_passes(p, n \div 2)}} : TRUE

\* The loop of Iterator::next: one character at a time until an event, an
\* error or the end of the queue
next_loop(p) ==
    CHOOSE r \in
      {[p |-> l.p, ret |-> l.ret, at |-> l.at, panic |-> l.panic]
       : l \in {next_passes(p, Len(p.data))}} : TRUE

\* Mutant: the has_error flag is not consulted
next_ignoring_error(p) == next_loop(p)

\* Iterator for Parser::next
next(p) ==
    IF p.has_error THEN [p |-> p, ret |-> None, at |-> None, panic |-> None]
    ELSE next_loop(p)

\* Calling next until it returns None: the values returned before that
RECURSIVE drain(_)
drain(p) ==
    CHOOSE d \in
      {IF is_some(r.panic) \/ is_none(r.ret)
       THEN [p |-> r.p, rets |-> <<>>, panic |-> r.panic]
       ELSE [drain(r.p) EXCEPT !.rets = r.ret \o @]
       : r \in {next(p)}} : TRUE

(***************************************************************************)
(* Tree builder, src/src/element_builder.rs                                *)
(***************************************************************************)

\* BuilderError variants
\* Mutant: the column of the tokenizer error is lost
BuilderParserError_without_col(err) == [kind |-> "Parser", err |-> [err EXCEPT !.col = 0]]
BuilderParserError(err) == [kind |-> "Parser", err |-> err]
ImproperNesting == [kind |-> "ImproperNesting"]
NoElement == [kind |-> "NoElement"]

\* Xml variants
ElementNode(elem) == [kind |-> "ElementNode", elem |-> elem]
CharacterNode(text) == [kind |-> "CharacterNode", text |-> text]
\* Mutant: CDATA is stored as character data
CDATANode_as_characters(text) == [kind |-> "CharacterNode", text |-> text]
CDATANode(text) == [kind |-> "CDATANode", text |-> text]
CommentNode(text) == [kind |-> "CommentNode", text |-> text]
PINode(text) == [kind |-> "PINode", text |-> text]

\* ElementBuilder::new
NewElementBuilder ==
    [stack |-> <<>>,
     default_ns |-> <<>>,
     prefixes |-> (XML_NS :> XML_NAME) @@ (XMLNS_NS :> XMLNS_NAME)]

\* ElementBuilder::set_default_ns
set_default_ns(b, ns) == [b EXCEPT !.default_ns = <<Some(ns)>>]

\* ElementBuilder::define_prefix
define_prefix(b, prefix, ns) == [b EXCEPT !.prefixes = insert(b.prefixes, ns, prefix)]

\* Mutant: the node is put in front of the children
push_child_front(b, node) ==
    IF b.stack = <<>> THEN b
    ELSE [b EXCEPT !.stack[Len(b.stack)].children = <<node>> \o @]

\* elem.children.push(node) on the top of the stack, if there is one
push_child(b, node) ==
    IF b.stack = <<>> THEN b
    ELSE [b EXCEPT !.stack[Len(b.stack)].children = Append(@, node)]

\* Mutant: an empty xmlns value is stored like any other
RECURSIVE scan_attributes_empty_kept(_, _, _, _)
scan_attributes_empty_kept(attributes, order, default_ns, prefixes) ==
    IF order = <<>> THEN [default_ns |-> default_ns, prefixes |-> prefixes]
    ELSE LET key == Head(order)
             value == attributes[key]
         IN IF is_none(key[2]) /\ key[1] = XMLNS_NAME
            THEN scan_attributes_empty_kept(attributes, Tail(order),
                     Append(IF default_ns = <<>> THEN <<>> ELSE Front(default_ns),
                            Some(value)),
                     prefixes)
            ELSE IF key[2] = Some(XMLNS_NS)
            THEN scan_attributes_empty_kept(attributes, Tail(order), default_ns,
                                            insert(prefixes, value, key[1]))
            ELSE scan_attributes_empty_kept(attributes, Tail(order), default_ns, prefixes)

\* The loop of the ElementStart arm over the attribute map, visited in the
\* order `order` (a HashMap iterates in an unspecified order)
RECURSIVE scan_attributes(_, _, _, _)
scan_attributes(attributes, order, default_ns, prefixes) ==
    IF order = <<>> THEN [default_ns |-> default_ns, prefixes |-> prefixes]
    ELSE LET key == Head(order)
             name == key[1]
             ns == key[2]
             value == attributes[key]
         IN IF is_none(ns) /\ name = XMLNS_NAME
            THEN scan_attributes(attributes, Tail(order),
                     Append(pop_scope(default_ns),
                            IF value = <<>> THEN None ELSE Some(value)),
                     prefixes)
            ELSE IF ns = Some(XMLNS_NS)
            THEN scan_attributes(attributes, Tail(order), default_ns,
                                 insert(prefixes, value, name))
            ELSE scan_attributes(attributes, Tail(order), default_ns, prefixes)

\* The orders in which a map's keys can be visited
Orders(m) ==
    {o \in [1..Cardinality(DOMAIN m) -> DOMAIN m] :
        \A i, j \in 1..Cardinality(DOMAIN m) : i # j => o[i] # o[j]}

\* Mutant: the namespaces are not compared
improperly_nested_name_only(elem, ev) == elem.name # ev.name

\* The orders in which handle_event may visit the attributes of an event
EventOrders(e) ==
    IF e.ok /\ e.val.type = "ElementStart" THEN Orders(e.val.attributes) ELSE {<<>>}

\* Mutant: the names are not compared
improperly_nested_ns_only(elem, ev) == elem.ns # ev.ns

\* The test of the ElementEnd arm: elem.name != name || elem.ns != ns
improperly_nested(elem, ev) == elem.name # ev.name \/ elem.ns # ev.ns

\* ElementBuilder::handle_event: the builder afterwards and the value returned
handle_event(b, e, order) ==
    IF ~e.ok THEN [b |-> b, out |-> Some(Err(BuilderParserError(e.val)))]
    ELSE LET ev == e.val IN
    CASE ev.type = "PI" -> [b |-> push_child(b, PINode(ev.text)), out |-> None]
      [] ev.type = "ElementStart" ->
           LET inherited == IF b.default_ns = <<>> THEN b.default_ns
                            ELSE Append(b.default_ns, Last(b.default_ns))
               s == scan_attributes(ev.attributes, order, inherited, b.prefixes)
               elem == [name |-> ev.name,
                        ns |-> ev.ns,
                        default_ns |-> IF s.default_ns = <<>> THEN None
                                       ELSE Last(s.default_ns),
                        prefixes |-> s.prefixes,
                        attributes |-> ev.attributes,
                        children |-> <<>>]
           IN [b |-> [b EXCEPT !.default_ns = s.default_ns,
                               !.stack = Append(b.stack, elem)],
               out |-> None]
      [] ev.type = "ElementEnd" ->
           IF b.stack = <<>> THEN [b |-> b, out |-> Some(Err(ImproperNesting))]
           ELSE LET elem == Last(b.stack)
                    b1 == [b EXCEPT !.stack = Front(b.stack),
                                    !.default_ns = pop_scope(b.default_ns)]
                IN IF improperly_nested(elem, ev)
                   THEN [b |-> b1, out |-> Some(Err(ImproperNesting))]
                   ELSE IF b1.stack # <<>>
                   THEN [b |-> push_child(b1, ElementNode(elem)), out |-> None]
                   ELSE [b |-> b1, out |-> Some(Ok(elem))]
      [] ev.type = "Characters" ->
           [b |-> push_child(b, CharacterNode(ev.text)), out |-> None]
      [] ev.type = "CDATA" -> [b |-> push_child(b, CDATANode(ev.text)), out |-> None]
      [] ev.type = "Comment" -> [b |-> push_child(b, CommentNode(ev.text)), out |-> None]

(***************************************************************************)
(* Element, src/src/element.rs                                             *)
(***************************************************************************)

\* A call that panics instead of returning
Panicked(msg) == [panicked |-> msg]
IsPanic(x) == "panicked" \in DOMAIN x

\* Element::new: attrs is a sequence of (name, namespace, value) tuples,
\* collected into the attribute map (a later tuple replaces an earlier one
\* with the same name and namespace)
RECURSIVE collect(_)
collect(attrs) ==
    IF attrs = <<>> THEN EmptyMap
    ELSE insert(collect(Front(attrs)), <<Last(attrs)[1], Last(attrs)[2]>>, Last(attrs)[3])

Element_new(name, ns, attrs) ==
    [name |-> name,
     ns |-> ns,
     default_ns |-> ns,
     prefixes |-> (XML_NS :> XML_NAME) @@ (XMLNS_NS :> XMLNS_NAME),
     attributes |-> collect(attrs),
     children |-> <<>>]

\* Element::tag_stay, text, cdata, comment, pi: a child is appended
Element_tag_stay(elem, child) == [elem EXCEPT !.children = Append(@, ElementNode(child))]
Element_text(elem, t) == [elem EXCEPT !.children = Append(@, CharacterNode(t))]
Element_cdata(elem, t) == [elem EXCEPT !.children = Append(@, CDATANode(t))]
Element_comment(elem, t) == [elem EXCEPT !.children = Append(@, CommentNode(t))]
Element_pi(elem, t) == [elem EXCEPT !.children = Append(@, PINode(t))]

\* Element::set_attribute: the attribute is inserted, in place of the one
\* with the same name and namespace if there is one
Element_set_attribute(elem, name, ns, value) ==
    [elem EXCEPT !.attributes = insert(@, <<name, ns>>, value)]

\* Element::remove_attribute: the attribute with the name and namespace is
\* removed if there is one
Element_remove_attribute(elem, name, ns) ==
    [elem EXCEPT !.attributes = [key \in DOMAIN @ \ {<<name, ns>>} |-> @[key]]]

\* Element::tag: the child is appended; the call returns a reference to the
\* child inside the element
Element_tag(elem, child) == [elem EXCEPT !.children = Append(@, ElementNode(child))]

\* A call made through the reference that tag returned has turned the
\* child appended last into `changed`
Element_tag_changed(elem, changed) ==
    [elem EXCEPT !.children[Len(elem.children)] = ElementNode(changed)]

\* write!(f, ..): f is Ok(the text written so far)
write(f, t) == Ok(f.val \o t)

\* The start of the tag of fmt_elem, "<name" or "<prefix:name"
fmt_open(elem, all_prefixes, f) ==
    IF elem.ns # elem.default_ns THEN
        LET key == IF is_none(elem.ns) THEN <<>> ELSE unwrap(elem.ns) IN
        IF key \in DOMAIN all_prefixes
          THEN write(f, <<"<">> \o all_prefixes[key] \o <<":">> \o elem.name)
          ELSE Panicked("No namespace prefix bound")
    ELSE write(f, <<"<">> \o elem.name)

\* The default namespace declaration of fmt_elem; parent is None for the
\* root and Some(the parent element) otherwise
fmt_default_ns(elem, parent, f) ==
    IF \E key \in DOMAIN elem.attributes : key[1] = XMLNS_NAME THEN f
    ELSE IF is_none(parent) /\ is_some(elem.default_ns)
      THEN write(f, <<" ", "x", "m", "l", "n", "s", "=", "'">> \o unwrap(elem.default_ns) \o <<"'">>)
    ELSE IF is_some(parent) /\ unwrap(parent).default_ns # elem.default_ns
      THEN write(f, <<" ", "x", "m", "l", "n", "s", "=", "'">>
                    \o (IF is_none(elem.default_ns) THEN <<>> ELSE unwrap(elem.default_ns))
                    \o <<"'">>)
    ELSE f

\* The loop of fmt_elem over the attribute map, visited in the order `order`
RECURSIVE fmt_attributes(_, _, _, _)
fmt_attributes(elem, all_prefixes, order, f) ==
    IF order = <<>> \/ IsPanic(f) THEN f
    ELSE LET name == Head(order)[1]
             ns == Head(order)[2]
             value == elem.attributes[Head(order)]
         IN IF is_some(ns) THEN
                IF unwrap(ns) \in DOMAIN all_prefixes
                  THEN fmt_attributes(elem, all_prefixes, Tail(order),
                           write(f, <<" ">> \o all_prefixes[unwrap(ns)] \o <<":">> \o name
                                    \o <<"=", "'">> \o escape(value) \o <<"'">>))
                  ELSE Panicked("No namespace prefix bound")
            ELSE fmt_attributes(elem, all_prefixes, Tail(order),
                     write(f, <<" ">> \o name \o <<"=", "'">> \o escape(value) \o <<"'">>))

\* The end tag of fmt_elem
fmt_close(elem, all_prefixes, f) ==
    IF IsPanic(f) THEN f
    ELSE IF elem.ns # elem.default_ns THEN
        IF is_none(elem.ns) THEN Panicked("called Option::unwrap() on a None value")
        ELSE IF unwrap(elem.ns) \in DOMAIN all_prefixes
          THEN write(f, <<"<", "/">> \o all_prefixes[unwrap(elem.ns)] \o <<":">>
                        \o elem.name \o <<">">>)
          ELSE Panicked("No namespace prefix bound")
    ELSE write(f, <<"<", "/">> \o elem.name \o <<">">>)

\* Display for Xml, the arms for the nodes that are no elements
fmt_leaf(node, f) ==
    CASE node.kind = "CharacterNode" -> write(f, escape(node.text))
      [] node.kind = "CDATANode" ->
           write(f, <<"<", "!", "[", "C", "D", "A", "T", "A", "[">> \o node.text \o <<"]", "]", ">">>)
      [] node.kind = "CommentNode" ->
           write(f, <<"<", "!", "-", "-">> \o node.text \o <<"-", "-", ">">>)
      [] node.kind = "PINode" -> write(f, <<"<", "?">> \o node.text \o <<"?", ">">>)

\* fmt_elem: what can be written, over the orders in which the attribute
\* maps may be visited; a panic ends the formatting
RECURSIVE fmt_elem(_, _, _, _)
RECURSIVE fmt_children(_, _, _, _)
fmt_children(elem, children, all_prefixes, f) ==
    IF children = <<>> \/ IsPanic(f) THEN {f}
    ELSE UNION {fmt_children(elem, Tail(children), all_prefixes, g)
                : g \in (IF Head(children).kind = "ElementNode"
                           THEN fmt_elem(Head(children).elem, Some(elem), all_prefixes, f)
                         ELSE {fmt_leaf(Head(children), f)})}

fmt_elem(elem, parent, all_prefixes, f) ==
    IF IsPanic(f) THEN {f}
    ELSE UNION
      {UNION
        {IF IsPanic(tag) THEN {tag}
         ELSE IF elem.children = <<>> THEN {write(tag, <<"/", ">">>)}
         ELSE {fmt_close(elem, all, g)
               : g \in fmt_children(elem, elem.children, all, write(tag, <<">">>))}
         : tag \in
             {IF IsPanic(open) THEN open
              ELSE fmt_attributes(elem, all, order, fmt_default_ns(elem, parent, open))
              : order \in Orders(elem.attributes), open \in {fmt_open(elem, all, f)}}}
       : all \in {elem.prefixes @@ all_prefixes}}

\* Display for Element
fmt(elem) == fmt_elem(elem, None, EmptyMap, Ok(<<>>))

\* Element::get_children: the child elements with the name and namespace,
\* in document order
get_children(elem, name, ns) ==
    LET matches == SelectSeq(elem.children,
                       LAMBDA child : /\ child.kind = "ElementNode"
                                      /\ child.elem.name = name
                                      /\ child.elem.ns = ns)
    IN [i \in 1..Len(matches) |-> matches[i].elem]

\* Element::get_child: the first of them
get_child(elem, name, ns) ==
    IF get_children(elem, name, ns) = <<>> THEN None
    ELSE Some(Head(get_children(elem, name, ns)))

\* for event in p.filter_map(|x| e.handle_event(x)) { println!("{}", ..) }:
\* the results the loop can see until the tokenizer returns None, and the
\* panic that ended the loop, if one did: a panic of the tokenizer, or of
\* Display when an Ok(element) is printed (printing an Err never panics)
RECURSIVE filter_map_all(_, _)

\* Mutant: only the first result of the tokenizer is looked at
filter_map_next_once(p, b) ==
    UNION {IF is_some(r.panic) \/ is_none(r.ret)
           THEN {[p |-> r.p, b |-> b, out |-> None, panic |-> r.panic]}
           ELSE {[p |-> r.p, b |-> h.b, out |-> h.out, panic |-> None]
                 : h \in {handle_event(b, unwrap(r.ret), order)
                          : order \in EventOrders(unwrap(r.ret))}}
           : r \in {next(p)}}

\* p.filter_map(|x| e.handle_event(x)).next(): the tokenizer is polled until
\* the builder returns Some(..) for a result or the tokenizer returns None;
\* the outcomes, over the orders in which the builder may visit attributes
RECURSIVE filter_map_next(_, _)
filter_map_next(p, b) ==
    UNION {IF is_some(r.panic) \/ is_none(r.ret)
           THEN {[p |-> r.p, b |-> b, out |-> None, panic |-> r.panic]}
           ELSE UNION {IF is_some(h.out)
                       THEN {[p |-> r.p, b |-> h.b, out |-> h.out, panic |-> None]}
                       ELSE filter_map_next(r.p, h.b)
                       : h \in {handle_event(b, unwrap(r.ret), order)
                                : order \in EventOrders(unwrap(r.ret))}}
           : r \in {next(p)}}


filter_map_all(p, b) ==
    UNION {IF is_some(x.panic) THEN {[results |-> <<>>, panic |-> x.panic]}
           ELSE IF is_none(x.out) THEN {[results |-> <<>>, panic |-> None]}
           ELSE UNION {IF IsPanic(f)
                       THEN {[results |-> <<unwrap(x.out)>>, panic |-> Some(f.panicked)]}
                       ELSE {[rest EXCEPT !.results = <<unwrap(x.out)>> \o @]
                             : rest \in filter_map_all(x.p, x.b)}
                       : f \in (IF unwrap(x.out).ok THEN fmt(unwrap(x.out).val)
                                ELSE {Ok(<<>>)})}
           : x \in filter_map_next(p, b)}

\* Element::from_str: the values it can return
from_str(data) ==
    {IF is_some(x.panic) THEN Panicked(unwrap(x.panic))
     ELSE IF is_none(x.out) THEN Err(NoElement)
     ELSE unwrap(x.out)
     : x \in filter_map_next(feed_str(NewParser, data), NewElementBuilder)}

(***************************************************************************)
(* Measures of a sequence of results                                       *)
(***************************************************************************)

\* The result r is an event of the given type
IsEvent(r, type) == r.ok /\ r.val.type = type
\* Number of events of a type among the first k results
Count(rs, type, k) == Cardinality({i \in 1..k : IsEvent(rs[i], type)})
Starts(rs) == Count(rs, "ElementStart", Len(rs))
Ends(rs) == Count(rs, "ElementEnd", Len(rs))

(***************************************************************************)
(* The tokenizer as a state machine.  The caller feeds text with feed_str  *)
(* and then calls next until it returns None, as in the documented loop    *)
(* `p.feed_str(..); for event in p { .. }`.                                *)
(***************************************************************************)

\* Bound on the number of feed_str calls of a run that feeds chunks
MaxFeeds == 4
\* Bound on the number of attributes of a generated start tag
MaxAttrs == 4
\* Bound on the length of the generated short texts
MaxTextLen == 4

RECURSIVE concat(_)
concat(ss) == IF ss = <<>> THEN <<>> ELSE Head(ss) \o concat(Tail(ss))

SeqsUpTo(S, n) == UNION {[1..k -> S] : k \in 0..n}

\* Whole tags, for nesting and default-namespace scoping:
\*   "<a xmlns='u'>"   "<a xmlns=''>"   "<a>"   "<a/>"   "</a>"   "<p:a>"
ScopeChunks ==
    {<<"<", "a", " ", "x", "m", "l", "n", "s", "=", "'", "u", "'", ">">>,
     <<"<", "a", " ", "x", "m", "l", "n", "s", "=", "'", "'", ">">>,
     <<"<", "a", ">">>,
     <<"<", "a", "/", ">">>,
     <<"<", "/", "a", ">">>,
     <<"<", "p", ":", "a", ">">>}

\* Pieces of tags with a prefixed name and its declaration:
\*   "<a"   "<p:a"   "</p:a"   " xmlns:p='u'"   " xmlns:p=''"   ">"   "/"   " "
TagChunks ==
    {<<"<", "a">>,
     <<"<", "p", ":", "a">>,
     <<"<", "/", "p", ":", "a">>,
     <<" ", "x", "m", "l", "n", "s", ":", "p", "=", "'", "u", "'">>,
     <<" ", "x", "m", "l", "n", "s", ":", "p", "=", "'", "'">>,
     <<">">>,
     <<"/">>,
     <<" ">>}

\* Openers of the generated start tags:
\*   "<a"   "<p:a"
TagOpeners ==
    {<<"<", "a">>,
     <<"<", "p", ":", "a">>}

\* Attributes of the generated start tags with declarations:
\*   " xmlns:p='u'"   " p:b='1'"   " b='1'"   " xmlns='u'"   " xmlns:xmlns='v'"
DeclAttrs ==
    {<<" ", "x", "m", "l", "n", "s", ":", "p", "=", "'", "u", "'">>,
     <<" ", "p", ":", "b", "=", "'", "1", "'">>,
     <<" ", "b", "=", "'", "1", "'">>,
     <<" ", "x", "m", "l", "n", "s", "=", "'", "u", "'">>,
     <<" ", "x", "m", "l", "n", "s", ":", "x", "m", "l", "n", "s", "=", "'", "v", "'">>}

\* What precedes a generated start tag with declarations:
\*   ""   "<a xmlns:p='w'>"   "</a>"
DeclContexts ==
    {<<>>,
     <<"<", "a", " ", "x", "m", "l", "n", "s", ":", "p", "=", "'", "w", "'", ">">>,
     <<"<", "/", "a", ">">>}

\* Attributes of the generated start tags with repeated attributes:
\*   " b='1'"   " b='2'"   " p:b='1'"   " q:b='2'"   " xmlns:p='u'"   " xmlns:q='u'"
DupAttrs ==
    {<<" ", "b", "=", "'", "1", "'">>,
     <<" ", "b", "=", "'", "2", "'">>,
     <<" ", "p", ":", "b", "=", "'", "1", "'">>,
     <<" ", "q", ":", "b", "=", "'", "2", "'">>,
     <<" ", "x", "m", "l", "n", "s", ":", "p", "=", "'", "u", "'">>,
     <<" ", "x", "m", "l", "n", "s", ":", "q", "=", "'", "u", "'">>}

\* The generated documents: a context, then one start tag
DeclDocs ==
    {ctx \o o \o concat(as) \o <<">">> :
        ctx \in DeclContexts, o \in TagOpeners, as \in SeqsUpTo(DeclAttrs, MaxAttrs - 1)}

DupDocs ==
    {o \o concat(as) \o <<">">> : o \in TagOpeners, as \in SeqsUpTo(DupAttrs, MaxAttrs)}


\* Documents fed in chunks: markup of every kind, an error on a later line,
\* and every short text over the characters of a tag
ChunkDocs ==
    {<<"<", "a", " ", "b", "=", "'", "1", "'", "/", ">">>,
     <<"<", "p", ":", "a", " ", "x", "m", "l", "n", "s", ":", "p", "=", "'", "u", "'", ">", "t", "&", "a", "m", "p", ";", "<", "/", "p", ":", "a", " ", ">">>,
     <<"<", "?", "p", "i", "?", ">", "<", "!", "-", "-", "c", "-", "-", ">", "<", "!", "[", "C", "D", "A", "T", "A", "[", "x", "]", "]", ">">>,
     <<"<", "!", "D", "O", "C", "T", "Y", "P", "E", " ", "a", ">", "\n", "<", "a", ">", "\n", "<", "b", " ", "c", "=", "d", ">">>,
     <<"<", "/", "a", ">", "<", "x", "m", "l", ":", "a", "/", ">">>}
ChunkTexts == ChunkDocs \cup SeqsUpTo({"<", "/", "a", ">"}, MaxTextLen)

Init ==
    /\ parser = NewParser
    /\ overflow_checks = TRUE
    /\ fed = <<>>
    /\ nfeeds = 0
    /\ pending = <<>>
    /\ results = <<>>
    /\ returned = None
    /\ at = None
    /\ panic = None
    /\ builder = NewElementBuilder
    /\ handled = <<>>
    /\ outputs = <<>>
    /\ before = <<>>
    /\ codec_in = <<>>
    /\ escaped = None
    /\ unescaped = None
    /\ restored = None
    /\ tree = None
    /\ rendered = None
    /\ reparsed = None

\* The state after construction, with the text the caller is going to feed
InitWith(texts) ==
    /\ parser = NewParser
    /\ overflow_checks = TRUE
    /\ fed = <<>>
    /\ nfeeds = 0
    /\ pending \in texts
    /\ results = <<>>
    /\ returned = None
    /\ at = None
    /\ panic = None
    /\ builder = NewElementBuilder
    /\ handled = <<>>
    /\ outputs = <<>>
    /\ before = <<>>
    /\ codec_in = <<>>
    /\ escaped = None
    /\ unescaped = None
    /\ restored = None
    /\ tree = None
    /\ rendered = None
    /\ reparsed = None

\* The caller has drained the parser since it last fed it
Drained == nfeeds = 0 \/ returned = Some(None)

\* p.feed_str(chunk), chunk chosen by the caller
FeedStr(chunk) ==
    /\ is_none(panic)
    /\ Drained
    /\ nfeeds < MaxFeeds
    /\ parser' = feed_str(parser, chunk)
    /\ fed' = fed \o chunk
    /\ nfeeds' = nfeeds + 1
    /\ returned' = None
    /\ at' = None
    /\ UNCHANGED <<overflow_checks, pending, results, panic, builder, handled, outputs, before, codecVars, renderVars>>

\* p.feed_str(chunk), chunk the next k characters of the pending text
FeedPending(k) ==
    /\ is_none(panic)
    /\ Drained
    /\ k \in 1..Len(pending)
    /\ parser' = feed_str(parser, SubSeq(pending, 1, k))
    /\ fed' = fed \o SubSeq(pending, 1, k)
    /\ pending' = SubSeq(pending, k + 1, Len(pending))
    /\ nfeeds' = nfeeds + 1
    /\ returned' = None
    /\ at' = None
    /\ UNCHANGED <<overflow_checks, results, panic, builder, handled, outputs, before, codecVars, renderVars>>

\* p.next()
ParserNext ==
    /\ is_none(panic)
    /\ \E r \in {next(parser)} :
        /\ parser' = r.p
        /\ returned' = Some(r.ret)
        /\ at' = r.at
        /\ results' = results \o r.ret
        /\ panic' = r.panic
    /\ UNCHANGED <<overflow_checks, fed, nfeeds, pending, builder, handled, outputs, before, codecVars, renderVars>>

FeedScope == \E chunk \in ScopeChunks : FeedStr(chunk)
FeedTag == \E chunk \in TagChunks : FeedStr(chunk)
FeedAll == FeedPending(Len(pending))
FeedChunk == \E k \in 1..Len(pending) : FeedPending(k)

\* Documents of whole tags
Next == FeedScope \/ ParserNext
Spec == Init /\ [][Next]_vars

\* Tags fed piece by piece
NextTag == FeedTag \/ ParserNext
SpecTag == Init /\ [][NextTag]_vars

\* One generated start tag with declarations, fed whole
InitDecl == InitWith(DeclDocs)
NextDecl == FeedAll \/ ParserNext
SpecDecl == InitDecl /\ [][NextDecl]_vars

\* One generated start tag with repeated attributes, fed whole
InitDup == InitWith(DupDocs)
NextDup == FeedAll \/ ParserNext
SpecDup == InitDup /\ [][NextDup]_vars

\* A text fed in chunks cut anywhere
InitChunk == InitWith(ChunkTexts)
NextChunk == FeedChunk \/ ParserNext
SpecChunk == InitChunk /\ [][NextChunk]_vars

(***************************************************************************)
(* The tree builder as a state machine.  The caller hands events to        *)
(* handle_event one at a time, until the first element opened is closed.   *)
(***************************************************************************)

\* Bound on the number of events handed to the builder
MaxEvents == 6

\* The events handed to the builder: elements a (no namespace) and b (in
\* namespace u), and one node of every other kind
BuilderEvents ==
    {Ok(ElementStart(<<"a">>, None, None, EmptyMap)),
     Ok(ElementStart(<<"b">>, Some(<<"u">>), None, (<<XMLNS_NAME, None>> :> <<"u">>))),
     Ok(ElementEnd(<<"a">>, None, None)),
     Ok(ElementEnd(<<"b">>, Some(<<"u">>), None)),
     Ok(Characters(<<"t">>)),
     Ok(CDATA(<<"d">>)),
     Ok(Comment(<<"c">>)),
     Ok(PI(<<"p">>))}

\* Elements on the builder's stack after the events es: an ElementStart
\* pushes one, an ElementEnd pops one unless the stack is empty
RECURSIVE Depth(_)
Depth(es) ==
    IF es = <<>> THEN 0
    ELSE CHOOSE n \in {IF IsEvent(Last(es), "ElementStart") THEN d + 1
                       ELSE IF IsEvent(Last(es), "ElementEnd") /\ d > 0 THEN d - 1
                       ELSE d : d \in {Depth(Front(es))}} : TRUE
\* The events es have opened an element and closed it, or closed one that
\* was not open
Closed(es) == es # <<>> /\ IsEvent(Last(es), "ElementEnd") /\ Depth(es) = 0

\* builder.handle_event(e)
HandleEvent(e) ==
    /\ Len(handled) < MaxEvents
    /\ ~Closed(handled)
    /\ \E order \in (IF e.ok /\ e.val.type = "ElementStart"
                     THEN Orders(e.val.attributes) ELSE {<<>>}) :
          LET r == handle_event(builder, e, order) IN
          /\ builder' = r.b
          /\ outputs' = Append(outputs, r.out)
    /\ handled' = Append(handled, e)
    /\ before' = Append(before, builder)
    /\ UNCHANGED <<parser, overflow_checks, fed, nfeeds, pending, results, returned, at, panic,
                   codecVars, renderVars>>

NextBuilder == \E e \in BuilderEvents : HandleEvent(e)
SpecBuilder == Init /\ [][NextBuilder]_vars

(***************************************************************************)
(* The tree builder on any stream of events, well nested or not.  Every    *)
(* ElementStart handed over carries an attribute `id` that tells its       *)
(* position in the stream.                                                 *)
(***************************************************************************)

\* Bound on the number of events of a stream
MaxStream == 5

ID_NAME == <<"i", "d">>
IdDigits == <<"1", "2", "3", "4", "5", "6", "7", "8", "9">>

\* The events of a stream: elements a (no namespace) and b (in namespace u,
\* which it declares as default and under the prefix p), end tags
\* that match them and one that matches neither, and text
StreamEvents ==
    {Ok(ElementStart(<<"a">>, None, None, EmptyMap)),
     Ok(ElementStart(<<"b">>, Some(<<"u">>), None,
                     (<<XMLNS_NAME, None>> :> <<"u">>)
                       @@ (<<<<"p">>, Some(XMLNS_NS)>> :> <<"u">>))),
     Ok(ElementEnd(<<"a">>, None, None)),
     Ok(ElementEnd(<<"b">>, Some(<<"u">>), None)),
     Ok(ElementEnd(<<"a">>, Some(<<"u">>), None)),
     Ok(Characters(<<"t">>))}

\* The event as it is handed over when it is the n-th of the stream
Stamp(e, n) ==
    IF e.ok /\ e.val.type = "ElementStart"
    THEN [e EXCEPT !.val.attributes = insert(@, <<ID_NAME, None>>, <<IdDigits[n]>>)]
    ELSE e

\* builder.handle_event(e), at any point of a stream
HandleStream(e) ==
    /\ Len(handled) < MaxStream
    /\ \E ev \in {Stamp(e, Len(handled) + 1)} :
         /\ \E order \in (IF ev.ok /\ ev.val.type = "ElementStart"
                          THEN Orders(ev.val.attributes) ELSE {<<>>}) :
              \E r \in {handle_event(builder, ev, order)} :
                 /\ builder' = r.b
                 /\ outputs' = Append(outputs, r.out)
         /\ handled' = Append(handled, ev)
    /\ before' = Append(before, builder)
    /\ UNCHANGED <<parser, overflow_checks, fed, nfeeds, pending, results, returned, at, panic,
                   codecVars, renderVars>>

\* builder.set_default_ns(ns), before the stream starts
SetDefaultNs(ns) ==
    /\ handled = <<>>
    /\ builder.default_ns = <<>>
    /\ builder' = set_default_ns(builder, ns)
    /\ UNCHANGED <<parser, overflow_checks, fed, nfeeds, pending, results, returned, at, panic,
                   handled, outputs, before, codecVars, renderVars>>

\* builder.define_prefix(prefix, ns), before the stream starts
DefinePrefix(prefix, ns) ==
    /\ handled = <<>>
    /\ builder' = define_prefix(builder, prefix, ns)
    /\ UNCHANGED <<parser, overflow_checks, fed, nfeeds, pending, results, returned, at, panic,
                   handled, outputs, before, codecVars, renderVars>>

NextStream ==
    \/ SetDefaultNs(<<"w">>)
    \/ DefinePrefix(<<"p">>, <<"u">>)
    \/ \E e \in StreamEvents : HandleStream(e)
SpecStream == Init /\ [][NextStream]_vars

\* The events of a stream of elements a that declare, undeclare or inherit
\* the default namespace
NsEvents ==
    {Ok(ElementStart(<<"a">>, None, None, EmptyMap)),
     Ok(ElementStart(<<"a">>, Some(<<"u">>), None, (<<XMLNS_NAME, None>> :> <<"u">>))),
     Ok(ElementStart(<<"a">>, None, None, (<<XMLNS_NAME, None>> :> <<>>))),
     Ok(ElementEnd(<<"a">>, None, None)),
     Ok(ElementEnd(<<"a">>, Some(<<"u">>), None))}

NextNs ==
    \/ SetDefaultNs(<<"w">>)
    \/ DefinePrefix(<<"p">>, <<"u">>)
    \/ \E e \in NsEvents : HandleStream(e)
SpecNs == Init /\ [][NextNs]_vars

\* The events handed to a builder on which set_default_ns is not called: the
\* elements of NsEvents, an element that declares a default namespace and
\* a prefix, text, and an error of the parser
FreshEvents ==
    NsEvents \cup
    {Ok(ElementStart(<<"b">>, Some(<<"v">>), None,
                     (<<XMLNS_NAME, None>> :> <<"v">>)
                       @@ (<<<<"p">>, Some(XMLNS_NS)>> :> <<"u">>))),
     Ok(Characters(<<"t">>)),
     Err(ParserError(1, 1, "Unexpected end of data"))}

NextFresh == DefinePrefix(<<"p">>, <<"u">>) \/ \E e \in FreshEvents : HandleStream(e)
SpecFresh == Init /\ [][NextFresh]_vars

(***************************************************************************)
(* The tokenizer piped into the tree builder, as in                        *)
(* `p.feed_str(data); p.filter_map(|x| e.handle_event(x))`.                *)
(***************************************************************************)

\* Bound on the number of pieces of a piped document
MaxPieces == 3

\* The pieces of the piped documents:
\*   "<a xmlns='u'>"  "</a>"  "<b/>"  "t\n"  "<!--c-->"  "<?p?>"  "<!DOCTYPE a>"
\*   "<b c d>" (an error in a tag)  "&;" (an error in text, once a tag follows)
PipePieces ==
    {<<"<", "a", " ", "x", "m", "l", "n", "s", "=", "'", "u", "'", ">">>,
     <<"<", "/", "a", ">">>,
     <<"<", "b", "/", ">">>,
     <<"t", "\n">>,
     <<"<", "!", "-", "-", "c", "-", "-", ">">>,
     <<"<", "?", "p", "?", ">">>,
     <<"<", "!", "D", "O", "C", "T", "Y", "P", "E", " ", "a", ">">>,
     <<"<", "b", " ", "c", " ", "d", ">">>,
     <<"&", ";">>}

PipeDocs == {concat(ps) : ps \in SeqsUpTo(PipePieces, MaxPieces)}

\* One round of the loop inside filter_map: p.next() and, when it returns
\* Some(x), e.handle_event(x)
PipeStep ==
    /\ is_none(panic)
    /\ pending = <<>>
    /\ \E r \in {next(parser)} :
        /\ parser' = r.p
        /\ returned' = Some(r.ret)
        /\ at' = r.at
        /\ results' = results \o r.ret
        /\ panic' = r.panic
        /\ IF is_none(r.ret) THEN UNCHANGED <<builder, handled, outputs, before>>
           ELSE \E order \in EventOrders(unwrap(r.ret)) :
                  \E h \in {handle_event(builder, unwrap(r.ret), order)} :
                     /\ builder' = h.b
                     /\ outputs' = Append(outputs, h.out)
                     /\ handled' = Append(handled, unwrap(r.ret))
                     /\ before' = Append(before, builder)
    /\ UNCHANGED <<overflow_checks, fed, nfeeds, pending, codecVars, renderVars>>

\* The pieces that are comments, PIs, a DOCTYPE or text (text that holds no
\* entity reference, which the tokenizer could reject)
TriviaPieces ==
    {<<"t", "\n">>,
     <<"<", "!", "-", "-", "c", "-", "-", ">">>,
     <<"<", "?", "p", "?", ">">>,
     <<"<", "!", "D", "O", "C", "T", "Y", "P", "E", " ", "a", ">">>}
\* The piece that opens an element and the piece that is a complete one
OpenPiece == <<"<", "a", " ", "x", "m", "l", "n", "s", "=", "'", "u", "'", ">">>
EmptyElementPiece == <<"<", "b", "/", ">">>

\* Documents made only of comments, PIs, text and DOCTYPEs (the empty one
\* among them)
TriviaDocs ==
    {concat(ps) : ps \in SeqsUpTo(TriviaPieces, MaxPieces)}
\* Documents whose root element is opened and never closed
UnclosedDocs ==
    {concat(ps) : ps \in
        {qs \in SeqsUpTo(TriviaPieces \cup {OpenPiece, EmptyElementPiece}, MaxPieces) :
            \E k \in 1..Len(qs) :
                /\ qs[k] = OpenPiece
                /\ \A j \in 1..(k - 1) : qs[j] \in TriviaPieces}}

InitPipe == InitWith(PipeDocs)
NextPipe == FeedAll \/ PipeStep
SpecPipe == InitPipe /\ [][NextPipe]_vars

\* One processing instruction opener and what follows it, fed whole
MaxPIBody == 4
PITexts ==
    {<<"<", "?">> \o body : body \in SeqsUpTo({"a", "b", "?", ">"}, MaxPIBody)}
InitPI == InitWith(PITexts)
NextPI == FeedAll \/ ParserNext
SpecPI == InitPI /\ [][NextPI]_vars

\* One CDATA opener and what follows it, fed whole
MaxCdataPieces == 5
CdataOpener == <<"<", "!", "[", "C", "D", "A", "T", "A", "[">>
CdataPieces ==
    {<<"]">>, <<"]", "]">>, <<">">>, <<"x", "<">>, <<"&", "l", "t", ";">>}
CdataTexts ==
    {CdataOpener \o concat(ps) : ps \in SeqsUpTo(CdataPieces, MaxCdataPieces)}
InitCdata == InitWith(CdataTexts)
NextCdata == FeedAll \/ ParserNext
SpecCdata == InitCdata /\ [][NextCdata]_vars

\* One CDATA section whose body ends in a run of ']', fed whole, in a build
\* with overflow checks (the dev and test profiles) or without (release).
\* The runs go past the range of the u8 counter.
MaxRun == 258
Brackets(n) == [i \in 1..n |-> "]"]
RunTexts ==
    {CdataOpener \o body \o Brackets(n) \o <<">">> :
        body \in {<<>>, <<"x">>}, n \in 2..MaxRun}
InitRun ==
    /\ parser = NewParser
    /\ overflow_checks \in BOOLEAN
    /\ fed = <<>>
    /\ nfeeds = 0
    /\ pending \in RunTexts
    /\ results = <<>>
    /\ returned = None
    /\ at = None
    /\ panic = None
    /\ builder = NewElementBuilder
    /\ handled = <<>>
    /\ outputs = <<>>
    /\ before = <<>>
    /\ codec_in = <<>>
    /\ escaped = None
    /\ unescaped = None
    /\ restored = None
    /\ tree = None
    /\ rendered = None
    /\ reparsed = None
NextRun == FeedAll \/ ParserNext
SpecRun == InitRun /\ [][NextRun]_vars

\* "<!-" and what follows it, fed whole
MaxCommentBody == 6
CommentTexts ==
    {<<"<", "!", "-">> \o body : body \in SeqsUpTo({"-", ">", "x"}, MaxCommentBody)}
InitComment == InitWith(CommentTexts)
NextComment == FeedAll \/ ParserNext
SpecComment == InitComment /\ [][NextComment]_vars

\* "<!DOCTYPE" and what follows it, fed whole: a name, an internal subset
\* with a declaration in it, the closing of either, an element, text
MaxDoctypePieces == 4
DoctypeOpener == <<"<", "!", "D", "O", "C", "T", "Y", "P", "E">>
DoctypePieces ==
    {<<" ", "a">>, <<" ", "[">>, <<"<", "!", "E", ">">>, <<"]", ">">>, <<">">>,
     <<"<", "b", "/", ">">>, <<"x">>}
DoctypeTexts ==
    {DoctypeOpener \o concat(ps) : ps \in SeqsUpTo(DoctypePieces, MaxDoctypePieces)}
InitDoctype == InitWith(DoctypeTexts)
NextDoctype == FeedAll \/ ParserNext
SpecDoctype == InitDoctype /\ [][NextDoctype]_vars

\* One element <a b=Q value Q>text</a>, fed whole: the value is quoted with
\* either quote character and holds none of its own, value and text are made
\* of a letter, the other quote, valid references, an unknown one and a bare
\* ampersand
MaxRaw == 3
RawPieces ==
    {<<"x">>, <<"'">>, <<"\"">>, <<"&">>, <<"&", "l", "t", ";">>,
     <<"&", "#", "3", "8", ";">>, <<"&", "n", "b", "s", "p", ";">>}
RawTexts == {concat(ps) : ps \in SeqsUpTo(RawPieces, MaxRaw)}
ElementDoc(q, value, text) ==
    <<"<", "a", " ", "b", "=">> \o <<q>> \o value \o <<q>> \o <<">">> \o text
        \o <<"<", "/", "a", ">">>
Quotes == {"'", "\""}
TextDocs ==
    UNION {{ElementDoc(q, v, t) :
                v \in {r \in RawTexts : \A k \in 1..Len(r) : r[k] # q},
                t \in {<<>>, <<"t">>, <<"&">>}}
           \cup {ElementDoc(q, <<"v">>, t) : t \in RawTexts}
           : q \in Quotes}
InitText == InitWith(TextDocs)
NextText == FeedAll \/ ParserNext
SpecText == InitText /\ [][NextText]_vars

\* Texts of several lines with malformed markup in them, fed in chunks cut
\* anywhere
MaxPosPieces == 3
PosPieces ==
    {<<"\n">>, <<"t">>, <<"<", "a", ">">>, <<"<", "!", "\n">>, <<"<", "!", "x">>,
     <<"<", "/", "b", ">">>}
PosTexts == {concat(ps) : ps \in SeqsUpTo(PosPieces, MaxPosPieces)}
InitPos == InitWith(PosTexts)
NextPos == FeedChunk \/ ParserNext
SpecPos == InitPos /\ [][NextPos]_vars

\* One end tag and what follows it, alone or after its start tag, fed in
\* chunks cut anywhere
MaxEndTail == 3
EndTagContexts == {<<>>, <<"<", "a", ">">>}
EndTagTexts ==
    {ctx \o <<"<", "/", "a">> \o tail :
        ctx \in EndTagContexts, tail \in SeqsUpTo({" ", "\n", ">", "x"}, MaxEndTail)}
InitEndTag == InitWith(EndTagTexts)
NextEndTag == FeedChunk \/ ParserNext
SpecEndTag == InitEndTag /\ [][NextEndTag]_vars

\* Well-nested documents whose elements declare the binding of their own
\* name, rebind a prefix or the default namespace of an ancestor, or use an
\* inherited one, fed whole
MaxNest == 2
\* The start and end tags of the nested elements:
\*   <p:a xmlns:p='u'> </p:a>    <p:a xmlns:p='v'> </p:a >    <a xmlns='u'> </a>
\*   <a xmlns='v'> </a>    <p:a> </p:a>    <a> </a>
NestTags ==
    {<<<<"<", "p", ":", "a", " ", "x", "m", "l", "n", "s", ":", "p", "=", "'", "u", "'", ">">>,
       <<"<", "/", "p", ":", "a", ">">>>>,
     <<<<"<", "p", ":", "a", " ", "x", "m", "l", "n", "s", ":", "p", "=", "'", "v", "'", ">">>,
       <<"<", "/", "p", ":", "a", " ", ">">>>>,
     <<<<"<", "a", " ", "x", "m", "l", "n", "s", "=", "'", "u", "'", ">">>,
       <<"<", "/", "a", ">">>>>,
     <<<<"<", "a", " ", "x", "m", "l", "n", "s", "=", "'", "v", "'", ">">>,
       <<"<", "/", "a", ">">>>>,
     <<<<"<", "p", ":", "a", ">">>, <<"<", "/", "p", ":", "a", ">">>>>,
     <<<<"<", "a", ">">>, <<"<", "/", "a", ">">>>>}
\* The empty elements that may follow a nested element:
\*   ""    <p:a/>    <a/>
NestSiblings ==
    {<<>>,
     <<"<", "p", ":", "a", "/", ">">>,
     <<"<", "a", "/", ">">>}
RECURSIVE NestDocs(_)
NestDocs(n) ==
    IF n = 0 THEN NestSiblings
    ELSE NestSiblings
           \cup {t[1] \o inner \o t[2] \o sib :
                    t \in NestTags, inner \in NestDocs(n - 1), sib \in NestSiblings}
InitNest == InitWith(NestDocs(MaxNest))
NextNest == FeedAll \/ ParserNext
SpecNest == InitNest /\ [][NextNest]_vars

\* Texts of every kind, each with all its prefixes, fed whole: every state
\* the tokenizer passes through is the state in which some run ends
MaxAnyLen == 4
\* The documents:
\*   <a b='1' c="2"/>
\*   <p:a xmlns:p='u' p:b ='&amp;'>t</p:a >
\*   <?pi ?x?><!--c-d--><![CDATA[x]]]>
\*   <!DOCTYPE a>t<a>
\*   </a><b c='1'>
\*   <p:a >
\*   <a p:b='1'/>
\*   <!----><![CDATA[]]>
\*   <a b c>
\*   <a b='&x;'>
\*   <a\n/ >
\*   <![CDATAx
\*   <!DOCTYPEx
AnyDocs ==
    {<<"<", "a", " ", "b", "=", "'", "1", "'", " ", "c", "=", "\"", "2", "\"", "/", ">">>,
     <<"<", "p", ":", "a", " ", "x", "m", "l", "n", "s", ":", "p", "=", "'", "u", "'", " ", "p", ":", "b", " ", "=", "'", "&", "a", "m", "p", ";", "'", ">", "t", "<", "/", "p", ":", "a", " ", ">">>,
     <<"<", "?", "p", "i", " ", "?", "x", "?", ">", "<", "!", "-", "-", "c", "-", "d", "-", "-", ">", "<", "!", "[", "C", "D", "A", "T", "A", "[", "x", "]", "]", "]", ">">>,
     <<"<", "!", "D", "O", "C", "T", "Y", "P", "E", " ", "a", ">", "t", "<", "a", ">">>,
     <<"<", "/", "a", ">", "<", "b", " ", "c", "=", "'", "1", "'", ">">>,
     <<"<", "p", ":", "a", " ", ">">>,
     <<"<", "a", " ", "p", ":", "b", "=", "'", "1", "'", "/", ">">>,
     <<"<", "!", "-", "-", "-", "-", ">", "<", "!", "[", "C", "D", "A", "T", "A", "[", "]", "]", ">">>,
     <<"<", "a", " ", "b", " ", "c", ">">>,
     <<"<", "a", " ", "b", "=", "'", "&", "x", ";", "'", ">">>,
     <<"<", "a", "\n", "/", " ", ">">>,
     <<"<", "!", "[", "C", "D", "A", "T", "A", "x">>,
     <<"<", "!", "D", "O", "C", "T", "Y", "P", "E", "x">>}
AnyTexts ==
    UNION {{SubSeq(d, 1, k) : k \in 0..Len(d)} : d \in AnyDocs}
      \cup SeqsUpTo({"<", "a", "/", ">", " ", "=", "'"}, MaxAnyLen)
InitAny == InitWith(AnyTexts)
NextAny == FeedAll \/ ParserNext
SpecAny == InitAny /\ [][NextAny]_vars

\* Text with or without markup before and after it, fed in chunks cut
\* anywhere
MaxTail == 3
TailTexts ==
    {pre \o body \o post :
        pre \in {<<>>, <<"<", "a", ">">>},
        body \in SeqsUpTo({"t", "\n"}, MaxTail),
        post \in {<<>>, <<"<", "/", "a", ">">>}}
InitTail == InitWith(TailTexts)
NextTail == FeedChunk \/ ParserNext
SpecTail == InitTail /\ [][NextTail]_vars

\* An element tree is formatted and the text is parsed again, as in
\* format!("{}", elem) followed by the documented loop over
\* p.filter_map(|x| e.handle_event(x)).  The trees are built with
\* Element::new and the methods that append children and set or remove
\* attributes, or come from Element::from_str.
MaxNodes == 2
NS_U == <<"u">>
NS_V == <<"v">>
RootAttrs ==
    {<<>>,
     <<<<<<"k">>, None, <<"1", "&">>>>>>,
     <<<<XMLNS_NAME, Some(XML_NS), <<"v">>>>>>}
\* The calls that append one child
Appends(elem) ==
    {Element_text(elem, <<"t">>), Element_text(elem, <<"<">>), Element_cdata(elem, <<"c">>),
     Element_comment(elem, <<"m">>), Element_pi(elem, <<"p">>),
     Element_pi(elem, <<"a", "?", "b", ">", "c">>)}
    \cup {Element_tag_stay(elem, Element_new(<<"b">>, ns, <<>>))
           : ns \in {None, Some(NS_U), Some(NS_V)}}
\* The calls that set or remove one attribute
AttributeCalls(elem) ==
    {Element_set_attribute(elem, <<"k">>, Some(NS_U), <<"1">>),
     Element_set_attribute(elem, <<"j">>, None, <<"2">>),
     Element_remove_attribute(elem, <<"k">>, None)}
\* The elements one call away from elem: a call on elem, Element::tag, or a
\* call through the reference to the child appended last
RECURSIVE Calls(_)
Calls(elem) ==
    Appends(elem) \cup AttributeCalls(elem)
    \cup {Element_tag(elem, Element_new(<<"b">>, Some(NS_U), <<>>))}
    \cup (IF elem.children # <<>> /\ Last(elem.children).kind = "ElementNode"
          THEN {Element_tag_changed(elem, c) : c \in Calls(Last(elem.children).elem)}
          ELSE {})
RECURSIVE BuiltFrom(_, _)
BuiltFrom(elems, n) ==
    IF n = 0 THEN elems
    ELSE elems \cup BuiltFrom(UNION {Calls(e) : e \in elems}, n - 1)
BuiltTrees ==
    BuiltFrom({Element_new(<<"a">>, ns, attrs) :
                  ns \in {None, Some(NS_U)}, attrs \in RootAttrs}, MaxNodes)
ParsedTexts ==
    {<<"<", "a", " ", "x", "m", "l", "n", "s", "=", "'", "u", "'", ">", "<", "b", " ", "x", "m", "l", "n", "s", "=", "'", "u", "'", "/", ">", "<", "/", "a", ">">>,
     <<"<", "a", " ", "x", "m", "l", "n", "s", "=", "'", "u", "'", ">", "<", "b", " ", "x", "m", "l", "n", "s", "=", "'", "'", "/", ">", "t", "<", "/", "a", ">">>,
     <<"<", "a", " ", "x", "m", "l", "n", "s", "=", "'", "'", "/", ">">>,
     <<"<", "p", ":", "a", " ", "x", "m", "l", "n", "s", ":", "p", "=", "'", "u", "'", ">", "<", "p", ":", "b", "/", ">", "<", "c", "/", ">", "<", "/", "p", ":", "a", ">">>,
     <<"<", "a", " ", "x", "m", "l", "n", "s", "=", "'", "u", "'", " ", "x", "m", "l", "n", "s", ":", "p", "=", "'", "v", "'", ">", "<", "p", ":", "b", " ", "p", ":", "k", "=", "'", "1", "'", "/", ">", "<", "/", "a", ">">>}
ParsedTrees ==
    {r.val : r \in {x \in UNION {from_str(t) : t \in ParsedTexts} : ~IsPanic(x) /\ x.ok}}

InitTree ==
    /\ parser = NewParser
    /\ overflow_checks = TRUE
    /\ fed = <<>>
    /\ nfeeds = 0
    /\ pending = <<>>
    /\ results = <<>>
    /\ returned = None
    /\ at = None
    /\ panic = None
    /\ builder = NewElementBuilder
    /\ handled = <<>>
    /\ outputs = <<>>
    /\ before = <<>>
    /\ codec_in = <<>>
    /\ escaped = None
    /\ unescaped = None
    /\ restored = None
    /\ tree \in {Some(t) : t \in BuiltTrees \cup ParsedTrees}
    /\ rendered = None
    /\ reparsed = None

nonRenderVars ==
    <<parser, overflow_checks, fed, nfeeds, pending, results, returned, at, panic,
      builder, handled, outputs, before, codecVars>>

\* format!("{}", tree)
Render ==
    /\ tree # None
    /\ rendered = None
    /\ \E r \in fmt(unwrap(tree)) : rendered' = Some(r)
    /\ UNCHANGED <<nonRenderVars, tree, reparsed>>

\* The rendered text is fed to a fresh Parser and its events are handed to a
\* fresh ElementBuilder
Reparse ==
    /\ rendered # None
    /\ ~IsPanic(unwrap(rendered))
    /\ reparsed = None
    /\ \E rs \in filter_map_all(feed_str(NewParser, unwrap(rendered).val), NewElementBuilder) :
            reparsed' = Some(rs)
    /\ UNCHANGED <<nonRenderVars, tree, rendered>>

NextTree == Render \/ Reparse
SpecTree == InitTree /\ [][NextTree]_vars

(***************************************************************************)
(* Parse, then look at the tree: a document with namespace declarations is *)
(* piped through the tokenizer and the builder; the caller keeps the root  *)
(* it yields, may step down to a child with get_child or get_children, and *)
(* formats the element it holds.                                           *)
(***************************************************************************)

\* Bound on the number of pieces between the root's tags
MaxKids == 3

\* The start tags of the root:
\*   "<a xmlns:p='u'>"  "<a xmlns:p='u' xmlns:q='u'>"  "<a k='1' j='2'>"
\*   "<a xmlns='u'>"  "<a xmlns:xmlns='v'>"  "<a>"
RootOpeners ==
    {<<"<", "a", " ", "x", "m", "l", "n", "s", ":", "p", "=", "'", "u", "'", ">">>,
     <<"<", "a", " ", "x", "m", "l", "n", "s", ":", "p", "=", "'", "u", "'", " ", "x", "m", "l", "n", "s", ":", "q", "=", "'", "u", "'", ">">>,
     <<"<", "a", " ", "k", "=", "'", "1", "'", " ", "j", "=", "'", "2", "'", ">">>,
     <<"<", "a", " ", "x", "m", "l", "n", "s", "=", "'", "u", "'", ">">>,
     <<"<", "a", " ", "x", "m", "l", "n", "s", ":", "x", "m", "l", "n", "s", "=", "'", "v", "'", ">">>,
     <<"<", "a", ">">>}
\* What stands between the root's tags:
\*   "<p:b/>"  "<b p:k='1'/>"  "<b xmlns:q='v'>"  "</b>"  "t"
KidPieces ==
    {<<"<", "p", ":", "b", "/", ">">>,
     <<"<", "b", " ", "p", ":", "k", "=", "'", "1", "'", "/", ">">>,
     <<"<", "b", " ", "x", "m", "l", "n", "s", ":", "q", "=", "'", "v", "'", ">">>,
     <<"<", "/", "b", ">">>,
     <<"t">>}
RootCloser == <<"<", "/", "a", ">">>
BuiltDocs ==
    {o \o concat(ks) \o RootCloser : o \in RootOpeners, ks \in SeqsUpTo(KidPieces, MaxKids)}

InitBuilt == InitWith(BuiltDocs)

\* The caller keeps the root the builder has just yielded
TakeRoot ==
    /\ tree = None
    /\ outputs # <<>>
    /\ Last(outputs) # None
    /\ unwrap(Last(outputs)).ok
    /\ tree' = Some(unwrap(Last(outputs)).val)
    /\ UNCHANGED <<nonRenderVars, rendered, reparsed>>

\* elem.get_children(name, ns).nth(i - 1), get_child for i = 1
GetChild ==
    /\ tree # None
    /\ rendered = None
    /\ \E k \in 1..Len(unwrap(tree).children) :
          /\ unwrap(tree).children[k].kind = "ElementNode"
          /\ \E c \in {unwrap(tree).children[k].elem} :
                \E i \in 1..Len(get_children(unwrap(tree), c.name, c.ns)) :
                    tree' = Some(get_children(unwrap(tree), c.name, c.ns)[i])
    /\ UNCHANGED <<nonRenderVars, rendered, reparsed>>

NextBuilt ==
    FeedAll \/ DefinePrefix(<<"p">>, <<"u">>) \/ PipeStep \/ TakeRoot \/ GetChild \/ Render
SpecBuilt == InitBuilt /\ [][NextBuilt]_vars

\* escape and unescape, applied to a text.  The texts are made of the five
\* reserved characters, a letter, and pieces that look like the tail of an
\* entity reference, so that "&lt;" and "&#38;" occur as literal text.
MaxRoundTrip == 4
RoundTripPieces ==
    {<<"&">>, <<"<">>, <<">">>, <<"'">>, <<"\"">>, <<"a">>,
     <<"l", "t", ";">>, <<"#", "3", "8", ";">>}
RoundTripTexts == {concat(ps) : ps \in SeqsUpTo(RoundTripPieces, MaxRoundTrip)}

InitCodec(texts) ==
    /\ parser = NewParser
    /\ overflow_checks = TRUE
    /\ fed = <<>>
    /\ nfeeds = 0
    /\ pending = <<>>
    /\ results = <<>>
    /\ returned = None
    /\ at = None
    /\ panic = None
    /\ builder = NewElementBuilder
    /\ handled = <<>>
    /\ outputs = <<>>
    /\ before = <<>>
    /\ codec_in \in texts
    /\ escaped = None
    /\ unescaped = None
    /\ restored = None
    /\ tree = None
    /\ rendered = None
    /\ reparsed = None

nonCodecVars ==
    <<parser, overflow_checks, fed, nfeeds, pending, results, returned, at, panic,
      builder, handled, outputs, before, renderVars>>

\* escape(codec_in)
Escape ==
    /\ escaped = None
    /\ escaped' = Some(escape(codec_in))
    /\ UNCHANGED <<nonCodecVars, codec_in, unescaped, restored>>

\* unescape(&escape(codec_in))
UnescapeEscaped ==
    /\ escaped # None
    /\ restored = None
    /\ tree = None
    /\ rendered = None
    /\ reparsed = None
    /\ restored' = Some(unescape(unwrap(escaped)))
    /\ UNCHANGED <<nonCodecVars, codec_in, escaped, unescaped>>

\* unescape(codec_in)
Unescape ==
    /\ unescaped = None
    /\ unescaped' = Some(unescape(codec_in))
    /\ UNCHANGED <<nonCodecVars, codec_in, escaped, restored>>

InitRoundTrip == InitCodec(RoundTripTexts)
NextRoundTrip == Escape \/ UnescapeEscaped
SpecRoundTrip == InitRoundTrip /\ [][NextRoundTrip]_vars

\* The texts unescape is applied to: ampersands, openers of numeric
\* references, semicolons, a sign, decimal and hexadecimal digits, a known
\* and an unknown entity name, a letter
MaxUnescape == 4
UnescapePieces ==
    {<<"&">>, <<"&", "#">>, <<"&", "#", "x">>, <<";">>, <<"+">>, <<"3", "8">>,
     <<"D", "8", "0", "0">>, <<"l", "t">>, <<"n", "b", "s", "p">>, <<"a">>}
UnescapeTexts == {concat(ps) : ps \in SeqsUpTo(UnescapePieces, MaxUnescape)}

InitUnescape == InitCodec(UnescapeTexts)
NextUnescape == Unescape
SpecUnescape == InitUnescape /\ [][NextUnescape]_vars

\* unescape applied to one numeric reference, alone or between letters.  The
\* digit strings are made of pieces, and hold the numbers around the limits
\* of the Unicode scalar values and of a u32.
MaxDigitPieces == 3
DigitPieces ==
    {<<"0">>, <<"1">>, <<"2", "6">>, <<"0", "0">>, <<"D", "7">>, <<"D", "8">>,
     <<"D", "F">>, <<"E", "0">>, <<"F", "F">>}
LimitDigits ==
    {<<"5", "5", "2", "9", "5">>, <<"5", "5", "2", "9", "6">>,
     <<"5", "7", "3", "4", "3">>, <<"5", "7", "3", "4", "4">>,
     <<"1", "1", "1", "4", "1", "1", "1">>, <<"1", "1", "1", "4", "1", "1", "2">>,
     <<"4", "2", "9", "4", "9", "6", "7", "2", "9", "5">>,
     <<"4", "2", "9", "4", "9", "6", "7", "2", "9", "6">>,
     <<"1", "0", "F", "F", "F", "F">>, <<"1", "1", "0", "0", "0", "0">>,
     <<"F", "F", "F", "F", "F", "F", "F", "F">>,
     <<"1", "0", "0", "0", "0", "0", "0", "0", "0">>,
     <<"8", "2", "2", "0">>, <<"2", "0", "1", "c">>}
NumericDigits ==
    {concat(ps) : ps \in SeqsUpTo(DigitPieces, MaxDigitPieces)} \cup LimitDigits
NumericOpeners == {<<"&", "#">>, <<"&", "#", "x">>}
NumericTexts ==
    {pre \o o \o ds \o <<";">> \o post :
        pre \in {<<>>, <<"a">>}, o \in NumericOpeners, ds \in NumericDigits,
        post \in {<<>>, <<"b">>}}

InitNumeric == InitCodec(NumericTexts)
NextNumeric == Unescape
SpecNumeric == InitNumeric /\ [][NextNumeric]_vars

(***************************************************************************)
(* Properties of the tokenizer                                             *)
(***************************************************************************)

\* The latest call of next returned Some(result)
ReturnedSome == returned # None /\ returned[1] # None
LastResult == returned[1][1]
ReturnedEvent(type) == ReturnedSome /\ LastResult.ok /\ LastResult.val.type = type
ReturnedError(msg) == ReturnedSome /\ ~LastResult.ok /\ LastResult.val.msg = msg

\* Parser state and character of the parse_character call that decided it
AtP == at[1][1]
AtC == at[1][2]

\* No prefix of the first k results has more ElementEnd than ElementStart
NoUnderflow(rs, k) ==
    \A j \in 1..k : Count(rs, "ElementEnd", j) <= Count(rs, "ElementStart", j)

ErrReturned == \E i \in 1..Len(results) : ~results[i].ok

\* C2: once next has returned an Err, no later step adds a result (an event
\* or a second error) and every call of next returns None, whatever is
\* queued or fed
C2_ErrorIsFinal ==
    [][ErrReturned => (results' = results /\ returned' \in {None, Some(None)})]_vars

\* C2 witness: after an error, text was fed and next, called again with the
\* text in the queue, returned None
C2_Witness == ErrReturned /\ returned = Some(None) /\ parser.data # <<>>

\* C3 as claimed: in every reachable state the scope stack is non-empty and
\* its bottom scope binds xml and xmlns to their fixed URIs
C3_BaseScopeKept ==
    /\ Len(parser.namespaces) >= 1
    /\ XML_NAME \in DOMAIN parser.namespaces[1]
    /\ parser.namespaces[1][XML_NAME] = XML_NS
    /\ XMLNS_NAME \in DOMAIN parser.namespaces[1]
    /\ parser.namespaces[1][XMLNS_NAME] = XMLNS_NS

\* C4: right after an event, the depth of the scope stack is
\* 1 + ElementStarts - ElementEnds, when no prefix of the events has more
\* Ends than Starts
C4_DepthTracksEvents ==
    (ReturnedSome /\ LastResult.ok /\ NoUnderflow(results, Len(results)))
        => Len(parser.namespaces) = 1 + Starts(results) - Ends(results)

\* C4 witness: a document with a self-closing tag inside an element has
\* closed, and the stack is back to the base scope
C4_Witness ==
    /\ fed = <<"<", "a", ">", "<", "a", "/", ">", "<", "/", "a", ">">>
    /\ ReturnedEvent("ElementEnd")
    /\ Len(results) = 4
    /\ IsEvent(results[2], "ElementStart") /\ IsEvent(results[3], "ElementEnd")
    /\ Starts(results) = 2 /\ Ends(results) = 2
    /\ NoUnderflow(results, 4)
    /\ Len(parser.namespaces) = 1

\* The default-namespace declaration of a start tag, if it has one
HasDefaultDecl(ev) == <<XMLNS_NAME, None>> \in DOMAIN ev.attributes
DefaultDecl(ev) == ev.attributes[<<XMLNS_NAME, None>>]

\* The default namespaces in effect at each open element after the first k
\* results, read off the events alone: a start tag declares one or inherits
\* its parent's, an end tag closes the innermost element
RECURSIVE DefaultStack(_, _)
DefaultStack(rs, k) ==
    IF k = 0 THEN <<>>
    ELSE LET prev == DefaultStack(rs, k - 1)
             r == rs[k]
         IN IF IsEvent(r, "ElementStart")
            THEN Append(prev,
                        IF HasDefaultDecl(r.val)
                        THEN (IF DefaultDecl(r.val) = <<>> THEN None
                              ELSE Some(DefaultDecl(r.val)))
                        ELSE IF prev = <<>> THEN None ELSE Last(prev))
            ELSE IF IsEvent(r, "ElementEnd") /\ prev # <<>> THEN Front(prev)
            ELSE prev

\* C5: an unprefixed element has the default namespace declared by itself or
\* else by its nearest ancestor that declares one; xmlns='' gives none; after
\* an element closes, its parent's default namespace applies again
C5_DefaultNamespaceScoping ==
    \A i \in 1..Len(results) :
        (IsEvent(results[i], "ElementStart") /\ results[i].val.prefix = None
            /\ NoUnderflow(results, i))
        => results[i].val.ns = Last(DefaultStack(results, i))

\* C5 witness: <a xmlns='u'><a xmlns=''> .. </a><a/>: the inner element has no
\* namespace, its following sibling has the outer default again
C5_Witness ==
    /\ Len(results) >= 4
    /\ IsEvent(results[1], "ElementStart") /\ results[1].val.ns = Some(<<"u">>)
    /\ IsEvent(results[2], "ElementStart") /\ HasDefaultDecl(results[2].val)
    /\ results[2].val.ns = None
    /\ IsEvent(results[3], "ElementEnd")
    /\ IsEvent(results[4], "ElementStart") /\ ~HasDefaultDecl(results[4].val)
    /\ results[4].val.ns = Some(<<"u">>)

\* The scopes that bind a prefix, and the URI it resolves to: that of the
\* innermost scope binding it, none when that is empty or no scope binds it
Binds(namespaces, prefix) == {i \in 1..Len(namespaces) : prefix \in DOMAIN namespaces[i]}
Innermost(S) == CHOOSE i \in S : \A j \in S : j <= i
ResolvedURI(namespaces, prefix) ==
    IF Binds(namespaces, prefix) = {} THEN None
    ELSE LET uri == namespaces[Innermost(Binds(namespaces, prefix))][prefix]
         IN IF uri = <<>> THEN None ELSE Some(uri)

\* The latest next ended on the character that completes a tag
FinalizingInTagName == at # None /\ AtP.st = "InTagName" /\ AtC \in {"/", ">"}
FinalizingInTag == at # None /\ AtP.st = "InTag" /\ AtC \in {"/", ">"} /\ AtP.name # None
FinalizingCloseTag == at # None /\ AtP.st = "InCloseTagName" /\ AtC \in WS \cup {">"}
FinalizingTag == FinalizingInTagName \/ FinalizingInTag \/ FinalizingCloseTag

\* The prefix written in the name of that tag
TagPrefixAt == IF AtP.st = "InTag" THEN AtP.name[1][1] ELSE parse_qname(AtP.buf)[1]

UnboundTagName ==
    Some(Some(Err(ParserError(AtP.line, AtP.col, "Unbound namespace prefix in tag name"))))

\* C6: when a start tag, self-closing tag or end tag is completed and the
\* prefix of its name resolves to no non-empty URI, next returns the error
\* "Unbound namespace prefix in tag name" (no panic, no event); an unprefixed
\* name with no default namespace in any scope gets namespace none and no
\* such error
C6_UnboundPrefixIsError ==
    FinalizingTag =>
        /\ (TagPrefixAt # None /\ ResolvedURI(AtP.namespaces, TagPrefixAt[1]) = None)
             => (returned = UnboundTagName /\ panic = None)
        /\ (TagPrefixAt = None /\ Binds(AtP.namespaces, <<>>) = {})
             => /\ ReturnedSome
                /\ LastResult.ok => LastResult.val.ns = None
                /\ ~LastResult.ok => LastResult.val.msg # "Unbound namespace prefix in tag name"

\* C6 witness: a start tag with attributes whose prefix is bound to the empty
\* string was completed and rejected
C6_Witness ==
    /\ FinalizingInTag
    /\ TagPrefixAt # None
    /\ Binds(AtP.namespaces, TagPrefixAt[1]) # {}
    /\ ResolvedURI(AtP.namespaces, TagPrefixAt[1]) = None
    /\ returned = UnboundTagName

\* C9: in ExpectClose, '>' yields the ElementEnd that repeats name, namespace
\* and prefix of the ElementStart returned just before it, any other
\* character yields "Expected '>' to close tag"; and an ElementStart decided
\* by '/' leaves the tokenizer in ExpectClose
C9_SelfClosing ==
    /\ (at # None /\ AtP.st = "ExpectClose") =>
         IF AtC = ">"
         THEN /\ ReturnedEvent("ElementEnd")
              /\ Len(results) >= 2
              /\ IsEvent(results[Len(results) - 1], "ElementStart")
              /\ LET s == results[Len(results) - 1].val
                     e == LastResult.val
                 IN s.name = e.name /\ s.ns = e.ns /\ s.prefix = e.prefix
         ELSE returned = Some(Some(Err(ParserError(AtP.line, AtP.col,
                                                   "Expected '>' to close tag"))))
    /\ (ReturnedEvent("ElementStart") /\ AtC = "/") => parser.st = "ExpectClose"
    /\ (ReturnedEvent("ElementEnd") /\ parser.st = "OutsideTag"
          /\ AtP.st \notin {"InCloseTagName"}) => AtP.st = "ExpectClose"

\* C9 witness: <p:a xmlns:p='u'/> has produced its ElementEnd
C9_Witness ==
    /\ at # None /\ AtP.st = "ExpectClose" /\ AtC = ">"
    /\ ReturnedEvent("ElementEnd")
    /\ LastResult.val.prefix = Some(<<"p">>)
    /\ LastResult.val.ns = Some(<<"u">>)
    /\ results[Len(results) - 1].val.attributes # EmptyMap

\* The attributes written in the start tag being completed, as the tokenizer
\* collected them: <<name, prefix, value>>
RawAttrs == AtP.attributes
RawNs(i) == IF RawAttrs[i][2] = None THEN None
            ELSE ResolvedURI(AtP.namespaces, RawAttrs[i][2][1])
RawBound(i) == RawAttrs[i][2] = None \/ RawNs(i) # None
\* Two of them have the same local name and the same resolved namespace
HasDuplicate ==
    \E i, j \in 1..Len(RawAttrs) :
        /\ i < j /\ RawBound(i) /\ RawBound(j)
        /\ RawAttrs[i][1] = RawAttrs[j][1] /\ RawNs(i) = RawNs(j)
AllPrefixesBound ==
    /\ TagPrefixAt = None \/ ResolvedURI(AtP.namespaces, TagPrefixAt[1]) # None
    /\ \A i \in 1..Len(RawAttrs) : RawBound(i)

\* C7 as claimed: a start tag with two attributes of equal (local name,
\* resolved namespace) yields Err "Duplicate attribute"
C7_Original ==
    (FinalizingInTag /\ HasDuplicate) => ReturnedError("Duplicate attribute")

\* C7 amended: such a tag yields an Err and no ElementStart; the message is
\* "Duplicate attribute" when the prefix of the tag name and the prefixes of
\* all its attributes are bound (otherwise an unbound-prefix error may come
\* first); and every ElementStart has one map entry per attribute written,
\* holding the value written
C7_DuplicateAttribute ==
    FinalizingInTag =>
        /\ HasDuplicate =>
             /\ ReturnedSome /\ ~LastResult.ok
             /\ AllPrefixesBound => ReturnedError("Duplicate attribute")
        /\ ReturnedEvent("ElementStart") =>
             /\ Cardinality(DOMAIN LastResult.val.attributes) = Len(RawAttrs)
             /\ \A i \in 1..Len(RawAttrs) :
                    /\ <<RawAttrs[i][1], RawNs(i)>> \in DOMAIN LastResult.val.attributes
                    /\ LastResult.val.attributes[<<RawAttrs[i][1], RawNs(i)>>] = RawAttrs[i][3]

\* C7 witness: two attributes with different prefixes bound to the same URI
\* were rejected as duplicates
C7_Witness ==
    /\ FinalizingInTag
    /\ AllPrefixesBound
    /\ \E i, j \in 1..Len(RawAttrs) :
          /\ i < j /\ RawAttrs[i][1] = RawAttrs[j][1] /\ RawNs(i) = RawNs(j)
          /\ RawAttrs[i][2] # None /\ RawAttrs[j][2] # None
          /\ RawAttrs[i][2] # RawAttrs[j][2]
    /\ ReturnedError("Duplicate attribute")

\* The declarations written in the tag being completed: prefix ("" for the
\* default namespace) to the value of the last declaration of it
IsDecl(a) == (a[2] = None /\ a[1] = XMLNS_NAME) \/ a[2] = Some(XMLNS_NAME)
DeclPrefix(a) == IF a[2] = None THEN <<>> ELSE a[1]
OwnDecls == {DeclPrefix(RawAttrs[i]) : i \in {j \in 1..Len(RawAttrs) : IsDecl(RawAttrs[j])}}
OwnDeclValue(prefix) ==
    RawAttrs[Innermost({i \in 1..Len(RawAttrs) :
                          IsDecl(RawAttrs[i]) /\ DeclPrefix(RawAttrs[i]) = prefix})][3]
\* Resolution in the scopes of the ancestors extended by those declarations
ResolveInTag(prefix) ==
    IF prefix \in OwnDecls
    THEN (IF OwnDeclValue(prefix) = <<>> THEN None ELSE Some(OwnDeclValue(prefix)))
    ELSE ResolvedURI(Front(AtP.namespaces), prefix)

\* C8 as claimed: in every ElementStart the tag name and the prefixed
\* attributes are resolved with all declarations of the same tag in scope,
\* an unprefixed attribute has namespace none, and a declaration xmlns:p='U'
\* is in the map under (p, http://www.w3.org/2000/xmlns/) with value U
C8_OwnDeclarationsApply ==
    (FinalizingInTag /\ ReturnedEvent("ElementStart")) =>
        LET ev == LastResult.val IN
        /\ ev.ns = ResolveInTag(IF ev.prefix = None THEN <<>> ELSE ev.prefix[1])
        /\ \A i \in 1..Len(RawAttrs) :
              LET a == RawAttrs[i]
                  key == IF a[2] = Some(XMLNS_NAME) THEN <<a[1], Some(XMLNS_NS)>>
                         ELSE IF a[2] = None THEN <<a[1], None>>
                         ELSE <<a[1], ResolveInTag(a[2][1])>>
              IN key \in DOMAIN ev.attributes /\ ev.attributes[key] = a[3]

\* C1: whenever the caller has fed some chunks and drained the tokenizer
\* after each, the events and errors it has got are those of a fresh
\* tokenizer fed the same text in one piece and drained
C1_ChunkingIsInvisible ==
    returned = Some(None) =>
        /\ results = drain(feed_str(NewParser, fed)).rets
        /\ panic = drain(feed_str(NewParser, fed)).panic

\* C1 witness: <a b='1'/> was fed in three chunks or more and gave its two
\* events
C1_Witness ==
    /\ pending = <<>>
    /\ fed = <<"<", "a", " ", "b", "=", "'", "1", "'", "/", ">">>
    /\ nfeeds >= 3
    /\ returned = Some(None)
    /\ Len(results) = 2
    /\ IsEvent(results[1], "ElementStart") /\ IsEvent(results[2], "ElementEnd")

(***************************************************************************)
(* Properties of the tree builder                                          *)
(***************************************************************************)

\* The End that closes the element opened by event i of es: the first later
\* event at which the depth is back to what it was before i (0 if none)
MatchingEnd(es, i) ==
    LET S == {j \in (i + 1)..Len(es) :
                Depth(SubSeq(es, 1, j)) = Depth(SubSeq(es, 1, i - 1))}
    IN IF S = {} THEN 0 ELSE CHOOSE j \in S : \A k \in S : j <= k

\* es opens one outermost element, closes every element with the name and
\* namespace it was opened with, and ends when the outermost one closes
WellNestedDocument(es) ==
    /\ es # <<>>
    /\ \A i \in 1..Len(es) : es[i].ok
    /\ Depth(es) = 0
    /\ Starts(es) = Ends(es)
    /\ IsEvent(Last(es), "ElementEnd")
    /\ \A k \in 1..(Len(es) - 1) : ~Closed(SubSeq(es, 1, k))
    /\ \A i \in 1..Len(es) :
          IsEvent(es[i], "ElementStart") =>
              /\ MatchingEnd(es, i) # 0
              /\ es[MatchingEnd(es, i)].val.name = es[i].val.name
              /\ es[MatchingEnd(es, i)].val.ns = es[i].val.ns

\* What occurred directly inside an element, read off the events lo..hi
\* between its Start and its End: elements as <<"element", name, ns,
\* content>>, the other nodes as they are built
RECURSIVE Content(_, _, _)
Content(es, lo, hi) ==
    IF lo > hi THEN <<>>
    ELSE LET ev == es[lo].val IN
         CASE ev.type = "ElementStart" ->
                LET j == MatchingEnd(es, lo) IN
                <<<<"element", ev.name, ev.ns, Content(es, lo + 1, j - 1)>>>>
                    \o Content(es, j + 1, hi)
           [] ev.type = "Characters" -> <<CharacterNode(ev.text)>> \o Content(es, lo + 1, hi)
           [] ev.type = "CDATA" -> <<CDATANode(ev.text)>> \o Content(es, lo + 1, hi)
           [] ev.type = "Comment" -> <<CommentNode(ev.text)>> \o Content(es, lo + 1, hi)
           [] ev.type = "PI" -> <<PINode(ev.text)>> \o Content(es, lo + 1, hi)

\* The same reading of a built element
RECURSIVE ContentOf(_)
ContentOf(elem) ==
    [i \in 1..Len(elem.children) |->
        IF elem.children[i].kind = "ElementNode"
        THEN LET c == elem.children[i].elem IN <<"element", c.name, c.ns, ContentOf(c)>>
        ELSE elem.children[i]]

\* The event that opens the outermost element
RootStart(es) ==
    CHOOSE i \in 1..Len(es) :
        IsEvent(es[i], "ElementStart") /\ \A j \in 1..(i - 1) : ~IsEvent(es[j], "ElementStart")

\* C10: when the events handled form a well-nested document, handle_event
\* has returned None for all of them but the last and Some(Ok(root)) for the
\* last, and each element of root has as children the nodes that occurred
\* directly inside it, in document order
C10_BuilderBuildsTheDocument ==
    WellNestedDocument(handled) =>
        LET n == Len(handled) IN
        /\ \A i \in 1..(n - 1) : outputs[i] = None
        /\ outputs[n] # None
        /\ outputs[n][1].ok
        /\ LET root == outputs[n][1].val
               i == RootStart(handled)
           IN /\ root.name = handled[i].val.name
              /\ root.ns = handled[i].val.ns
              /\ ContentOf(root) = Content(handled, i + 1, n - 1)

\* C10 witness: <a>t<b>c</b></a> has been built
C10_Witness ==
    /\ WellNestedDocument(handled)
    /\ Len(handled) = 6
    /\ outputs[6] # None /\ outputs[6][1].ok
    /\ LET ch == outputs[6][1].val.children IN
        /\ Len(ch) = 2
        /\ ch[1] = CharacterNode(<<"t">>)
        /\ ch[2].kind = "ElementNode"
        /\ ch[2].elem.name = <<"b">>
        /\ ch[2].elem.children = <<CommentNode(<<"c">>)>>

(***************************************************************************)
(* Properties of the tree builder on any stream                            *)
(***************************************************************************)

\* The positions of the ElementStart events still open after the first k
\* events of es: a Start opens, an End closes the one opened last
RECURSIVE OpenStarts(_, _)
OpenStarts(es, k) ==
    IF k = 0 THEN <<>>
    ELSE CHOOSE r \in
           {IF IsEvent(es[k], "ElementStart") THEN Append(open, k)
            ELSE IF IsEvent(es[k], "ElementEnd") /\ open # <<>> THEN Front(open)
            ELSE open
            : open \in {OpenStarts(es, k - 1)}} : TRUE

\* The position of the ElementStart that the ElementEnd at position j closes
\* (0 when no element is open)
ClosedBy(es, j) ==
    IF OpenStarts(es, j - 1) = <<>> THEN 0 ELSE Last(OpenStarts(es, j - 1))

\* The ElementEnd events that close the ElementStart at position i
ClosersOf(es, i) ==
    {j \in 1..Len(es) : IsEvent(es[j], "ElementEnd") /\ ClosedBy(es, j) = i}

\* The elements attached below an element, at any depth
RECURSIVE Attached(_)
Attached(elem) ==
    UNION {{elem.children[k].elem} \cup Attached(elem.children[k].elem) :
             k \in {n \in 1..Len(elem.children) : elem.children[n].kind = "ElementNode"}}

\* The elements the builder has yielded
Yielded == {outputs[k][1].val : k \in {n \in 1..Len(outputs) : outputs[n] # None /\ outputs[n][1].ok}}

\* Every element that was yielded or attached as a child of another element
YieldedOrAttached ==
    Yielded
      \cup UNION {Attached(x) : x \in Yielded}
      \cup UNION {Attached(builder.stack[k]) : k \in 1..Len(builder.stack)}

\* The position of the ElementStart that pushed an element
IdOf(elem) == CHOOSE n \in 1..Len(IdDigits) : elem.attributes[<<ID_NAME, None>>] = <<IdDigits[n]>>

\* C11: every element yielded or attached as a child was pushed by an
\* ElementStart of the stream and popped by an ElementEnd with the same name
\* and resolved namespace; an element popped by an ElementEnd that differs in
\* name or namespace is neither yielded nor attached
C11_OnlyMatchedElementsKept ==
    /\ \A x \in YieldedOrAttached :
          LET i == IdOf(x) IN
          /\ i <= Len(handled)
          /\ IsEvent(handled[i], "ElementStart")
          /\ x.name = handled[i].val.name /\ x.ns = handled[i].val.ns
          /\ ClosersOf(handled, i) # {}
          /\ \A j \in ClosersOf(handled, i) :
                handled[j].val.name = x.name /\ handled[j].val.ns = x.ns
    /\ \A j \in 1..Len(handled) :
          (/\ IsEvent(handled[j], "ElementEnd")
           /\ ClosedBy(handled, j) # 0
           /\ \/ handled[j].val.name # handled[ClosedBy(handled, j)].val.name
              \/ handled[j].val.ns # handled[ClosedBy(handled, j)].val.ns)
          => \A x \in YieldedOrAttached : IdOf(x) # ClosedBy(handled, j)

\* C11 witness: an inner element was popped by an end tag of the same name
\* and another namespace, and the outer element was then closed and yielded
\* without it
C11_Witness ==
    /\ Len(handled) = 4
    /\ IsEvent(handled[1], "ElementStart") /\ IsEvent(handled[2], "ElementStart")
    /\ IsEvent(handled[3], "ElementEnd")
    /\ handled[3].val.name = handled[2].val.name /\ handled[3].val.ns # handled[2].val.ns
    /\ outputs[3] = Some(Err(ImproperNesting))
    /\ outputs[4] # None /\ outputs[4][1].ok
    /\ outputs[4][1].val.children = <<>>

\* The step hands an event of the given type to the builder
Handles(type) ==
    /\ Len(handled') = Len(handled) + 1
    /\ IsEvent(handled'[Len(handled')], type)
\* That event, and what handle_event returns for it
HandledEvent == handled'[Len(handled')]
HandledOutput == outputs'[Len(outputs')]

\* C12: for an ElementEnd, handle_event returns Some(Err(ImproperNesting))
\* when the element stack is empty, leaving both stacks as they are, and when
\* the top element differs from the event in name or namespace, after popping
\* the element and the default-namespace stack; otherwise it returns no error
C12_ImproperNesting ==
    [][Handles("ElementEnd") =>
         IF builder.stack = <<>>
         THEN /\ HandledOutput = Some(Err(ImproperNesting))
              /\ builder'.stack = builder.stack
              /\ builder'.default_ns = builder.default_ns
         ELSE IF \/ Last(builder.stack).name # HandledEvent.val.name
                 \/ Last(builder.stack).ns # HandledEvent.val.ns
         THEN /\ HandledOutput = Some(Err(ImproperNesting))
              /\ builder'.stack = Front(builder.stack)
              /\ builder'.default_ns = IF builder.default_ns = <<>> THEN <<>>
                                       ELSE Front(builder.default_ns)
         ELSE HandledOutput = None \/ HandledOutput[1].ok]_vars

\* C12 witness: with a preset default namespace, an end tag came with no
\* element open, then an element was opened and closed by an end tag of
\* another namespace; both returned ImproperNesting
C12_Witness ==
    /\ Len(handled) = 3
    /\ IsEvent(handled[1], "ElementEnd")
    /\ IsEvent(handled[2], "ElementStart")
    /\ IsEvent(handled[3], "ElementEnd")
    /\ handled[3].val.name = handled[2].val.name /\ handled[3].val.ns # handled[2].val.ns
    /\ outputs = <<Some(Err(ImproperNesting)), None, Some(Err(ImproperNesting))>>
    /\ builder.stack = <<>>
    /\ builder.default_ns = <<Some(<<"w">>)>>

\* C13: after handle_event has returned Some(Err(ImproperNesting)) for an
\* event of the stream, it returns Some(Ok(element)) for no later event
C13_NestingErrorIsTerminal ==
    \A i, j \in 1..Len(outputs) :
        (i < j /\ outputs[i] = Some(Err(ImproperNesting)))
            => ~(outputs[j] # None /\ outputs[j][1].ok)

\* The builder as it was just after the n-th event
After(n) == IF n < Len(before) THEN before[n + 1] ELSE builder

\* What handle_event can return for the last of the events es when they are
\* handed, in order, to the builder b
RECURSIVE LastOutputs(_, _)
LastOutputs(b, es) ==
    UNION {IF Len(es) = 1 THEN {h.out} ELSE LastOutputs(h.b, Tail(es))
           : h \in {handle_event(b, es[1], order) : order \in EventOrders(es[1])}}

\* The stream es is a sequence of complete elements: every ElementEnd closes
\* an open element of the same name and namespace, and the last event closes
\* the last element open
WellNestedStream(es) ==
    /\ es # <<>>
    /\ \A j \in 1..Len(es) :
          /\ es[j].ok
          /\ IsEvent(es[j], "ElementEnd") =>
                /\ ClosedBy(es, j) # 0
                /\ es[j].val.name = es[ClosedBy(es, j)].val.name
                /\ es[j].val.ns = es[ClosedBy(es, j)].val.ns
    /\ IsEvent(Last(es), "ElementEnd")
    /\ OpenStarts(es, Len(es)) = <<>>

\* The positions at which a top-level element of es is closed
RootEnds(es) ==
    {j \in 1..Len(es) : IsEvent(es[j], "ElementEnd") /\ OpenStarts(es, j) = <<>>}

\* The events of the top-level element closed at position n, with what stands
\* between it and the element before
RootSegment(es, n) ==
    LET earlier == {j \in RootEnds(es) : j < n}
        from == IF earlier = {} THEN 1 ELSE 1 + Innermost(earlier)
    IN SubSeq(es, from, n)

\* C14: when a root is yielded the element stack is empty and the
\* default-namespace stack and the prefix table are what they were before the
\* ElementStart of that root; and a stream of complete top-level elements
\* yields an Ok(element) exactly at the end of each, which is one a builder
\* set up in the same way yields for that element alone
C14_BuilderReadyAfterRoot ==
    /\ \A n \in 1..Len(outputs) :
          (outputs[n] # None /\ outputs[n][1].ok) =>
              LET i == IdOf(outputs[n][1].val) IN
              /\ After(n).stack = <<>>
              /\ After(n).default_ns = before[i].default_ns
              /\ After(n).prefixes = before[i].prefixes
    /\ WellNestedStream(handled) =>
          /\ {n \in 1..Len(outputs) : outputs[n] # None} = RootEnds(handled)
          /\ \A n \in RootEnds(handled) :
                /\ outputs[n][1].ok
                /\ outputs[n] \in LastOutputs(before[1], RootSegment(handled, n))

\* C14 witness: with a preset default namespace, <a/> and then <b ..>t</b>
\* were yielded one after the other
C14_Witness ==
    /\ WellNestedStream(handled)
    /\ Len(handled) = 5
    /\ RootEnds(handled) = {2, 5}
    /\ outputs[2] # None /\ outputs[2][1].ok /\ outputs[2][1].val.name = <<"a">>
    /\ outputs[5] # None /\ outputs[5][1].ok /\ outputs[5][1].val.name = <<"b">>
    /\ outputs[5][1].val.children = <<CharacterNode(<<"t">>)>>
    /\ builder = before[1]
    /\ builder.default_ns = <<Some(<<"w">>)>>

\* The events that are neither ElementStart nor ElementEnd, and the kind of
\* node each becomes
LeafTypes == {"PI", "Characters", "CDATA", "Comment"}
LeafKind(type) ==
    CASE type = "PI" -> "PINode"
      [] type = "Characters" -> "CharacterNode"
      [] type = "CDATA" -> "CDATANode"
      [] type = "Comment" -> "CommentNode"

\* C15: for a PI, Characters, CDATA or Comment event handle_event returns
\* None; with no element open the builder stays as it is, otherwise one node
\* of the kind of the event, with its text, is appended to the children of
\* the top element and nothing else changes
C15_LeafEvents ==
    [][(\E type \in LeafTypes : Handles(type)) =>
         /\ HandledOutput = None
         /\ IF builder.stack = <<>> THEN builder' = builder
            ELSE builder' =
                   [builder EXCEPT !.stack[Len(builder.stack)].children =
                       Append(@, [kind |-> LeafKind(HandledEvent.val.type),
                                  text |-> HandledEvent.val.text])]]_vars

\* C15 witness: a PI came before any element and was dropped, then text and
\* CDATA were appended, in that order, to the element opened after it
C15_Witness ==
    /\ Len(handled) = 4
    /\ IsEvent(handled[1], "PI")
    /\ IsEvent(handled[2], "ElementStart")
    /\ IsEvent(handled[3], "Characters")
    /\ IsEvent(handled[4], "CDATA")
    /\ outputs = <<None, None, None, None>>
    /\ Len(builder.stack) = 1
    /\ builder.stack[1].children =
         <<[kind |-> "CharacterNode", text |-> <<"t">>], [kind |-> "CDATANode", text |-> <<"d">>]>>

\* The default namespace preset before the stream
PresetDefault == IF before'[1].default_ns = <<>> THEN None ELSE before'[1].default_ns[1]

\* C17: the default namespace stored in the element an ElementStart pushes is
\* Some(v) for an unprefixed attribute xmlns of non-empty value v, none when
\* that value is empty, and otherwise that of the element below it on the
\* stack (for a root: the preset one, or none)
C17_EffectiveDefaultNamespace ==
    [][Handles("ElementStart") =>
         /\ Len(builder'.stack) = Len(builder.stack) + 1
         /\ Last(builder'.stack).default_ns =
              IF <<XMLNS_NAME, None>> \in DOMAIN HandledEvent.val.attributes
              THEN (IF HandledEvent.val.attributes[<<XMLNS_NAME, None>>] = <<>> THEN None
                    ELSE Some(HandledEvent.val.attributes[<<XMLNS_NAME, None>>]))
              ELSE IF builder.stack # <<>> THEN Last(builder.stack).default_ns
              ELSE PresetDefault]_vars

\* C17 witness: with w preset, four nested elements: one inherits w, one
\* declares u, one undeclares it, one inherits that
C17_Witness ==
    /\ Len(handled) = 4
    /\ Len(builder.stack) = 4
    /\ builder.stack[1].default_ns = Some(<<"w">>)
    /\ builder.stack[2].default_ns = Some(<<"u">>)
    /\ builder.stack[3].default_ns = None
    /\ <<XMLNS_NAME, None>> \in DOMAIN builder.stack[3].attributes
    /\ builder.stack[4].default_ns = None
    /\ ~(<<XMLNS_NAME, None>> \in DOMAIN builder.stack[4].attributes)

(***************************************************************************)
(* Properties of the pipeline                                              *)
(***************************************************************************)

\* The pipeline hands every result of the tokenizer to the builder
PipedThrough == handled = results /\ Len(outputs) = Len(results)

\* C16: in the pipeline a tokenizer error comes out as Some(Err(Parser(e)))
\* with the line, column and message of e; it is the last result of the
\* stream, the only error of the tokenizer in it, and handling it leaves the
\* builder as it was
C16_TokenizerErrorSurfaces ==
    /\ [](/\ PipedThrough
          /\ \A i \in 1..Len(results) :
                ~results[i].ok =>
                    /\ outputs[i] # None
                    /\ ~outputs[i][1].ok
                    /\ outputs[i][1].val.kind = "Parser"
                    /\ outputs[i][1].val.err.line = results[i].val.line
                    /\ outputs[i][1].val.err.col = results[i].val.col
                    /\ outputs[i][1].val.err.msg = results[i].val.msg
                    /\ i = Len(outputs)
          /\ \A i \in 1..Len(outputs) :
                (outputs[i] # None /\ ~outputs[i][1].ok /\ outputs[i][1].val.kind = "Parser")
                    => ~results[i].ok)
    /\ [][(Len(results') = Len(results) + 1 /\ ~results'[Len(results')].ok)
            => builder' = builder]_vars

\* C16 witness: inside an element that declares a default namespace, after a
\* line break, the tokenizer failed on <b c d> and the error came out of the
\* builder, which still holds the open element
C16_Witness ==
    /\ Len(results) = 3
    /\ IsEvent(results[1], "ElementStart")
    /\ IsEvent(results[2], "Characters")
    /\ ~results[3].ok
    /\ results[3].val.line = 2
    /\ outputs = <<None, None, Some(Err([kind |-> "Parser", err |-> results[3].val]))>>
    /\ Len(builder.stack) = 1
    /\ builder.default_ns = <<Some(<<"u">>)>>
    /\ returned = Some(None)

\* The results of the pipeline: what the builder returned, None left out
RECURSIVE Somes(_)
Somes(outs) ==
    IF outs = <<>> THEN <<>>
    ELSE (IF Head(outs) = None THEN <<>> ELSE <<Head(outs)[1]>>) \o Somes(Tail(outs))

\* The pipeline has consumed the whole input
PipeDone == pending = <<>> /\ returned = Some(None)

\* C18: from_str returns the first result of the pipeline run on the same
\* text, and Err(NoElement) exactly when the pipeline gives no result; that
\* is the case for the empty text, for texts made only of comments, PIs, text
\* and DOCTYPEs, and for texts whose root element is never closed
C18_FromStr ==
    PipeDone =>
        /\ Somes(outputs) # <<>> =>
              /\ Somes(outputs)[1] \in from_str(fed)
              /\ ~(Err(NoElement) \in from_str(fed))
        /\ Somes(outputs) = <<>> => from_str(fed) = {Err(NoElement)}
        /\ fed \in TriviaDocs \cup UnclosedDocs => from_str(fed) = {Err(NoElement)}

\* C18 witness: an element was opened and never closed, with an element and a
\* comment inside; the pipeline ended without a result
C18_Witness ==
    /\ PipeDone
    /\ fed \in UnclosedDocs
    /\ Len(results) = 4
    /\ IsEvent(results[1], "ElementStart")
    /\ IsEvent(results[4], "Comment")
    /\ Somes(outputs) = <<>>
    /\ Len(builder.stack) = 1
    /\ Len(builder.stack[1].children) = 2

(***************************************************************************)
(* Properties of escape and unescape                                       *)
(***************************************************************************)

\* C19: for every text over the five reserved characters, letters, digits,
\* '#' and ';', unescaping the escaped text gives back Ok(text), and the
\* escaped text is at least as long as the text
C19_RoundTrip ==
    /\ escaped # None => Len(unwrap(escaped)) >= Len(codec_in)
    /\ restored # None => unwrap(restored) = Ok(codec_in)

\* C19 witness: the text &lt;&#38; , which reads as two entity references,
\* was escaped to &amp;lt;&amp;#38; and restored
C19_Witness ==
    /\ codec_in = <<"&", "l", "t", ";", "&", "#", "3", "8", ";">>
    /\ escaped = Some(<<"&", "a", "m", "p", ";", "l", "t", ";",
                        "&", "a", "m", "p", ";", "#", "3", "8", ";">>)
    /\ restored = Some(Ok(codec_in))

\* The text after the '&' at position i, up to the next '&' or the end
FragmentAt(s, i) ==
    LET later == {j \in (i + 1)..Len(s) : s[j] = "&"}
        stop == IF later = {} THEN Len(s) + 1
                ELSE CHOOSE j \in later : \A k \in later : j <= k
    IN SubSeq(s, i + 1, stop - 1)

\* The token of a fragment that holds a ';': the text before the first one
TokenOf(frag) ==
    LET semis == {j \in 1..Len(frag) : frag[j] = ";"}
    IN SubSeq(frag, 1, (CHOOSE j \in semis : \A k \in semis : j <= k) - 1)

DecimalDigits == {"0", "1", "2", "3", "4", "5", "6", "7", "8", "9"}
HexDigits ==
    DecimalDigits \cup {"a", "b", "c", "d", "e", "f", "A", "B", "C", "D", "E", "F"}

\* The number a digit string writes, every number above 0x10FFFF counted as
\* one past it
RECURSIVE NumberOf(_, _)
NumberOf(ds, radix) ==
    IF ds = <<>> THEN 0
    ELSE LET n == NumberOf(SubSeq(ds, 1, Len(ds) - 1), radix) * radix
                  + to_digit(ds[Len(ds)], radix)
         IN IF n > ScalarLimit THEN ScalarLimit ELSE n

\* A Unicode scalar value: a code point that is no surrogate
IsScalarValue(n) == n >= 0 /\ n < ScalarLimit /\ ~(n >= 55296 /\ n <= 57343)

\* A numeric reference: '#' and decimal digits, or '#x' and hexadecimal
\* digits, that write a Unicode scalar value
ValidNumericReference(token) ==
    \/ /\ Len(token) >= 3
       /\ token[1] = "#" /\ token[2] = "x"
       /\ \A k \in 3..Len(token) : token[k] \in HexDigits
       /\ IsScalarValue(NumberOf(SubSeq(token, 3, Len(token)), 16))
    \/ /\ Len(token) >= 2
       /\ token[1] = "#"
       /\ \A k \in 2..Len(token) : token[k] \in DecimalDigits
       /\ IsScalarValue(NumberOf(SubSeq(token, 2, Len(token)), 10))

NamedReferences ==
    {<<"q", "u", "o", "t">>, <<"a", "p", "o", "s">>, <<"g", "t">>, <<"l", "t">>,
     <<"a", "m", "p">>}

\* The '&' at position i opens no reference
BadReferenceAt(s, i) ==
    /\ s[i] = "&"
    /\ LET frag == FragmentAt(s, i) IN
         \/ ~(\E j \in 1..Len(frag) : frag[j] = ";")
         \/ /\ \E j \in 1..Len(frag) : frag[j] = ";"
            /\ ~(TokenOf(frag) \in NamedReferences)
            /\ ~ValidNumericReference(TokenOf(frag))

\* The raw text of the bad reference at position i
RawReferenceAt(s, i) ==
    LET frag == FragmentAt(s, i) IN
    IF \E j \in 1..Len(frag) : frag[j] = ";"
      THEN <<"&">> \o TokenOf(frag) \o <<";">>
      ELSE <<"&">> \o frag

\* C20: unescape returns Err exactly when some '&' is followed in its
\* fragment by no ';' or by a token that is no named and no valid numeric
\* reference, and the error value is the raw text of the leftmost such '&'
C20_UnescapeError ==
    unescaped # None =>
        LET bad == {i \in 1..Len(codec_in) : BadReferenceAt(codec_in, i)}
            r == unwrap(unescaped)
        IN IF bad = {} THEN r.ok
           ELSE r = Err(RawReferenceAt(codec_in,
                                       CHOOSE i \in bad : \A k \in bad : i <= k))

\* The parts of a text that holds one numeric reference
RefStart == find(codec_in, "&")
RefEnd == find(codec_in, ";")
RefIsHex == codec_in[RefStart + 2] = "x"
RefRadix == IF RefIsHex THEN 16 ELSE 10
RefDigits == SubSeq(codec_in, RefStart + (IF RefIsHex THEN 3 ELSE 2), RefEnd - 1)
RefText == SubSeq(codec_in, RefStart, RefEnd)
RefIsNumeric ==
    \A k \in 1..Len(RefDigits) :
        RefDigits[k] \in (IF RefIsHex THEN HexDigits ELSE DecimalDigits)

\* C21: a numeric reference of decimal or hexadecimal digits decodes to the
\* one character with that code point exactly when the number is a Unicode
\* scalar value; a surrogate, a number above 0x10FFFF or beyond 32 bits, and
\* an empty digit string give Err carrying the reference, as an unknown
\* entity does
C21_NumericReference ==
    (unescaped # None /\ RefIsNumeric) =>
        LET n == NumberOf(RefDigits, RefRadix)
            r == unwrap(unescaped)
        IN IF RefDigits # <<>> /\ IsScalarValue(n)
             THEN r = Ok(SubSeq(codec_in, 1, RefStart - 1) \o char_from_u32(n)
                         \o SubSeq(codec_in, RefEnd + 1, Len(codec_in)))
             ELSE r = Err(RefText)

\* C21 witness: a&#xDFFF;b names a surrogate and was rejected with the
\* reference as the error value
C21_Witness ==
    /\ codec_in = <<"a", "&", "#", "x", "D", "F", "F", "F", ";", "b">>
    /\ unescaped = Some(Err(<<"&", "#", "x", "D", "F", "F", "F", ";">>))

(***************************************************************************)
(* Properties of the tokenizer: processing instructions, CDATA sections,   *)
(* comments, DOCTYPEs, text and positions                                  *)
(***************************************************************************)

\* The whole text was fed and the tokenizer drained
AllDrained == pending = <<>> /\ nfeeds > 0 /\ returned = Some(None)

\* The positions from `from` on where text holds the two characters a, b
PairsFrom(text, a, b, from) ==
    {i \in from..(Len(text) - 1) : text[i] = a /\ text[i + 1] = b}

Least(S) == CHOOSE i \in S : \A k \in S : i <= k

\* What a fresh tokenizer returns for a text
Tokens(text) == drain(feed_str(NewParser, text)).rets

\* Results with the position of every error left out
Unplaced(rs) ==
    [i \in 1..Len(rs) |-> IF rs[i].ok THEN rs[i] ELSE Err(rs[i].val.msg)]

\* C24: a processing instruction ends at the first '>' that directly follows
\* a '?'; its text is everything between "<?" and that "?>", and the
\* tokenizer goes on after it; with no "?>" no event is returned
C24_PIEndsAtQuestionGreater ==
    AllDrained =>
        LET ends == PairsFrom(fed, "?", ">", 3) IN
        IF ends = {} THEN results = <<>>
        ELSE /\ results # <<>>
             /\ results[1] = Ok(PI(SubSeq(fed, 3, Least(ends) - 1)))
             /\ Unplaced(Tail(results)) = Unplaced(Tokens(SubSeq(fed, Least(ends) + 2, Len(fed))))

\* The positions of the '>' of text that directly follow two ']' of the
\* body of the CDATA section that text opens
CdataEnds(text) ==
    {i \in (Len(CdataOpener) + 3)..Len(text) :
        text[i] = ">" /\ text[i - 1] = "]" /\ text[i - 2] = "]"}

\* C25: a CDATA section ends at the first '>' that directly follows two
\* ']' or more; the one CDATA event carries the body as written, with only
\* the last two ']' removed, and the tokenizer goes on after the '>'; with
\* no such '>' no event is returned
C25_CdataEndsAtBracketRun ==
    AllDrained =>
        LET ends == CdataEnds(fed) IN
        IF ends = {} THEN results = <<>>
        ELSE /\ results # <<>>
             /\ results[1] =
                    Ok(CDATA(SubSeq(fed, Len(CdataOpener) + 1, Least(ends) - 3)))
             /\ Unplaced(Tail(results)) = Unplaced(Tokens(SubSeq(fed, Least(ends) + 1, Len(fed))))

\* C25 witness: in <![CDATA[]]x<>]]> the first run of two ']' is followed by
\* x, so the first '>' belongs to the body, which is ]]x<>
C25_Witness ==
    /\ AllDrained
    /\ fed = CdataOpener \o <<"]", "]", "x", "<", ">", "]", "]", ">">>
    /\ results = <<Ok(CDATA(<<"]", "]", "x", "<", ">">>))>>

\* C26: whatever the length n >= 2 of the run of ']' before the '>', the
\* section ends there, the event text is the body without its last two ']',
\* and nothing aborts
C26_LongBracketRun ==
    AllDrained =>
        /\ panic = None
        /\ results = <<Ok(CDATA(SubSeq(fed, Len(CdataOpener) + 1, Len(fed) - 3)))>>

\* The results are one error with the message msg
OneError(msg) == Len(results) = 1 /\ ~results[1].ok /\ results[1].val.msg = msg

\* C27: after "<!-" another '-' must follow, "Expected 2nd '-' to start
\* comment" otherwise; the body runs to the first two consecutive '-', single
\* dashes staying in it; the next character must be '>', which gives
\* Comment(body), and any other gives "No more than one adjacent '-' allowed
\* in a comment"
C27_CommentEndsAtTwoDashes ==
    AllDrained =>
        IF Len(fed) < 4 THEN results = <<>>
        ELSE IF fed[4] # "-" THEN OneError("Expected 2nd '-' to start comment")
        ELSE LET dashes == PairsFrom(fed, "-", "-", 5) IN
             IF dashes = {} \/ Least(dashes) + 2 > Len(fed) THEN results = <<>>
             ELSE IF fed[Least(dashes) + 2] = ">"
               THEN /\ results # <<>>
                    /\ results[1] = Ok(Comment(SubSeq(fed, 5, Least(dashes) - 1)))
                    /\ Unplaced(Tail(results)) =
                          Unplaced(Tokens(SubSeq(fed, Least(dashes) + 3, Len(fed))))
               ELSE OneError("No more than one adjacent '-' allowed in a comment")

\* C27 witness: <!---x--> gave the comment -x , the single dash staying in
\* the body
C27_Witness ==
    /\ AllDrained
    /\ fed = <<"<", "!", "-", "-", "-", "x", "-", "-", ">">>
    /\ results = <<Ok(Comment(<<"-", "x">>))>>

\* Position i of a DOCTYPE text lies inside a bracketed internal subset:
\* more '[' than ']' come before it
InSubset(text, i) ==
    Cardinality({j \in (Len(DoctypeOpener) + 1)..(i - 1) : text[j] = "["})
        > Cardinality({j \in (Len(DoctypeOpener) + 1)..(i - 1) : text[j] = "]"})

\* The top-level '>' of a DOCTYPE text
TopLevelEnds(text) ==
    {i \in (Len(DoctypeOpener) + 2)..Len(text) : text[i] = ">" /\ ~InSubset(text, i)}

\* C28: a DOCTYPE with whitespace after the keyword gives no event, all of
\* it up to its top-level '>' is dropped, a '>' inside a bracketed internal
\* subset not ending it, and the tokenizer goes on in OutsideTag after it
C28_DoctypeDiscarded ==
    (AllDrained /\ Len(fed) > Len(DoctypeOpener) /\ fed[Len(DoctypeOpener) + 1] \in WS) =>
        LET ends == TopLevelEnds(fed) IN
        IF ends = {} THEN results = <<>> /\ parser.st = "InDoctype"
        ELSE Unplaced(results) = Unplaced(Tokens(SubSeq(fed, Least(ends) + 1, Len(fed))))

\* The parts of a fed text <a b=Q value Q>text</a>
ValueQuote == fed[6]
ValueEnd == Least({i \in 7..Len(fed) : fed[i] = ValueQuote})
RawValue == SubSeq(fed, 7, ValueEnd - 1)
RawText == SubSeq(fed, ValueEnd + 2, Len(fed) - 4)

\* The one attribute of an ElementStart event is b, with the value v
HasValue(ev, v) ==
    /\ ev.type = "ElementStart"
    /\ DOMAIN ev.attributes = {<<<<"b">>, None>>}
    /\ ev.attributes[<<<<"b">>, None>>] = v

\* Result i is the error "Found invalid entity" and the last one
InvalidEntityAt(i) ==
    /\ Len(results) = i
    /\ ~results[i].ok
    /\ results[i].val.msg = "Found invalid entity"

\* C29: the attribute value of the ElementStart is unescape of the raw text
\* between the quote that opened it and the next quote of the same kind, the
\* text of the Characters event is unescape of the raw text between the
\* tags; where unescape fails the result is the error "Found invalid
\* entity" in place of the ElementStart or of the Characters event
C29_TextAndValuesUnescaped ==
    AllDrained =>
        IF ~unescape(RawValue).ok THEN InvalidEntityAt(1)
        ELSE /\ results # <<>>
             /\ results[1].ok
             /\ HasValue(results[1].val, unescape(RawValue).val)
             /\ IF RawText = <<>>
                   THEN Len(results) = 2 /\ IsEvent(results[2], "ElementEnd")
                 ELSE IF ~unescape(RawText).ok THEN InvalidEntityAt(2)
                 ELSE /\ Len(results) = 3
                      /\ results[2] = Ok(Characters(unescape(RawText).val))
                      /\ IsEvent(results[3], "ElementEnd")

\* C29 witness: <a b="'&lt;&#38;">t</a> gave the value '<& and the text t
C29_Witness ==
    /\ AllDrained
    /\ fed = ElementDoc("\"", <<"'", "&", "l", "t", ";", "&", "#", "3", "8", ";">>, <<"t">>)
    /\ Len(results) = 3
    /\ HasValue(results[1].val, <<"'", "<", "&">>)
    /\ results[2] = Ok(Characters(<<"t">>))

\* The number of characters the tokenizer has consumed
Consumed == Len(fed) - Len(parser.data)
\* The line feeds among the first k characters fed
LineFeeds(k) == {i \in 1..k : fed[i] = "\n"}
\* The position of the last line feed among them, 0 with none
LastLineFeed(k) ==
    IF LineFeeds(k) = {} THEN 0
    ELSE CHOOSE i \in LineFeeds(k) : \A j \in LineFeeds(k) : j <= i

\* C30: the line of an error is one more than the number of line feeds
\* consumed, the offending character counted, its col the number of
\* characters consumed since the last line feed, and both are those of a
\* tokenizer fed the same text in one piece
C30_ErrorPosition ==
    (ReturnedSome /\ ~LastResult.ok) =>
        /\ LastResult.val.line = 1 + Cardinality(LineFeeds(Consumed))
        /\ LastResult.val.col = Consumed - LastLineFeed(Consumed)
        /\ Tokens(fed) # <<>>
        /\ LastResult = Tokens(fed)[Len(Tokens(fed))]

\* C30 witness: a line feed, <a> and <!x came in three chunks or more; the
\* x is the sixth character of line 2
C30_Witness ==
    /\ nfeeds >= 3
    /\ SubSeq(fed, 1, Consumed) = <<"\n", "<", "a", ">", "<", "!", "x">>
    /\ ReturnedError("Malformed XML")
    /\ LastResult.val.line = 2
    /\ LastResult.val.col = 6

(***************************************************************************)
(* Properties of rendering                                                 *)
(***************************************************************************)

\* The text that was rendered
RenderedText == unwrap(rendered).val

\* The positions where a start tag opens in a rendered text: a '<' that
\* opens no end tag, comment, CDATA section or processing instruction
TagStarts(t) == {i \in 1..(Len(t) - 1) : t[i] = "<" /\ ~(t[i + 1] \in {"/", "!", "?"})}
\* The start tag that opens at position i, up to its '>'
TagAt(t, i) == SubSeq(t, i, Least({j \in i..Len(t) : t[j] = ">"}))

\* The positions in a start tag of an unprefixed xmlns declaration, and the
\* value declared at such a position
XmlnsDecl == <<" ", "x", "m", "l", "n", "s", "=", "'">>
DeclsIn(tag) ==
    {i \in 1..(Len(tag) - Len(XmlnsDecl)) : SubSeq(tag, i, i + Len(XmlnsDecl) - 1) = XmlnsDecl}
DeclValue(tag, i) ==
    SubSeq(tag, i + Len(XmlnsDecl),
           Least({j \in (i + Len(XmlnsDecl))..Len(tag) : tag[j] = "'"}) - 1)

\* The elements of a tree in document order, each with its
\* parent (None for the root)
RECURSIVE ElementChildren(_, _)
ElementChildren(root, children) ==
    IF children = <<>> THEN <<>>
    ELSE (IF Head(children).kind = "ElementNode"
            THEN <<[elem |-> Head(children).elem, parent |-> Some(root)]>>
                   \o ElementChildren(Head(children).elem, Head(children).elem.children)
          ELSE <<>>) \o ElementChildren(root, Tail(children))
ElementsOf(root) == <<[elem |-> root, parent |-> None]>> \o ElementChildren(root, root.children)

\* The k-th smallest member of a set of numbers
RECURSIVE Nth(_, _)
Nth(S, k) == IF k = 1 THEN Least(S) ELSE Nth(S \ {Least(S)}, k - 1)

\* The default namespace declaration an element must carry: Some(value), or
\* None when it must carry none
MustDeclare(e) ==
    IF is_none(e.parent)
      THEN e.elem.default_ns
    ELSE IF unwrap(e.parent).default_ns # e.elem.default_ns
      THEN Some(IF is_none(e.elem.default_ns) THEN <<>> ELSE unwrap(e.elem.default_ns))
    ELSE None

\* C23: in a rendered tree the start tag of the root carries xmlns='U'
\* exactly when its default namespace is set to U; the start tag of another
\* element carries one exactly when its default namespace differs from its
\* parent's, xmlns='' when it has none; no start tag carries two
C23_DefaultNamespaceDeclared ==
    (rendered # None /\ ~IsPanic(unwrap(rendered))) =>
        LET es == ElementsOf(unwrap(tree))
            starts == TagStarts(RenderedText)
        IN /\ Cardinality(starts) = Len(es)
           /\ \A k \in 1..Len(es) :
                 LET tag == TagAt(RenderedText, Nth(starts, k)) IN
                 /\ Cardinality(DeclsIn(tag)) <= 1
                 /\ IF is_none(MustDeclare(es[k])) THEN DeclsIn(tag) = {}
                    ELSE /\ DeclsIn(tag) # {}
                         /\ DeclValue(tag, Least(DeclsIn(tag))) = unwrap(MustDeclare(es[k]))

\* The text t holds the text w somewhere
Holds(t, w) == \E i \in 1..(Len(t) - Len(w) + 1) : SubSeq(t, i, i + Len(w) - 1) = w

\* A node that can be written as XML text and read back as one node of its
\* kind: text is not empty, a CDATA section holds no "]]>", a comment no
\* "--" and no '-' at its end, a processing instruction no "?>"
WellFormedLeaf(node) ==
    CASE node.kind = "CharacterNode" -> node.text # <<>>
      [] node.kind = "CDATANode" -> ~Holds(node.text, <<"]", "]", ">">>)
      [] node.kind = "CommentNode" ->
           /\ ~Holds(node.text, <<"-", "-">>)
           /\ (node.text = <<>> \/ Last(node.text) # "-")
      [] node.kind = "PINode" -> ~Holds(node.text, <<"?", ">">>)

\* A well-formed tree with no namespace conflicts: the leaves are well
\* formed, no two text nodes are adjacent, an attribute named xmlns is the
\* unprefixed declaration of the element's own default namespace, and the
\* element is in its default namespace or in one that has a prefix
RECURSIVE WellFormedTree(_)
WellFormedTree(elem) ==
    /\ \A key \in DOMAIN elem.attributes :
          key[1] = XMLNS_NAME =>
              /\ is_none(key[2])
              /\ is_some(elem.default_ns)
              /\ elem.attributes[key] = unwrap(elem.default_ns)
    /\ elem.ns = elem.default_ns
          \/ (is_some(elem.ns) /\ unwrap(elem.ns) \in DOMAIN elem.prefixes)
    /\ \A k \in 1..Len(elem.children) :
          IF elem.children[k].kind = "ElementNode"
            THEN WellFormedTree(elem.children[k].elem)
            ELSE WellFormedLeaf(elem.children[k])
    /\ \A k \in 1..(Len(elem.children) - 1) :
          ~(elem.children[k].kind = "CharacterNode"
              /\ elem.children[k + 1].kind = "CharacterNode")

\* Two trees are equal in name, namespace, attribute map and child sequence
\* at every level; prefixes are not compared
RECURSIVE SameTree(_, _)
SameTree(e1, e2) ==
    /\ e1.name = e2.name
    /\ e1.ns = e2.ns
    /\ e1.attributes = e2.attributes
    /\ Len(e1.children) = Len(e2.children)
    /\ \A k \in 1..Len(e1.children) :
          /\ e1.children[k].kind = e2.children[k].kind
          /\ IF e1.children[k].kind = "ElementNode"
               THEN SameTree(e1.children[k].elem, e2.children[k].elem)
               ELSE e1.children[k].text = e2.children[k].text

\* C22: parsing the rendered text of a well-formed tree with no namespace
\* conflicts gives exactly one root, equal to the tree in name, namespace,
\* attribute map and child sequence at every level
C22_RenderParseRoundTrip ==
    (reparsed # None /\ WellFormedTree(unwrap(tree))) =>
        /\ Len(unwrap(reparsed).results) = 1
        /\ unwrap(reparsed).results[1].ok
        /\ SameTree(unwrap(reparsed).results[1].val, unwrap(tree))

(***************************************************************************)
(* Properties of end tags, of the prefix tables of built elements and of   *)
(* matching tags                                                           *)
(***************************************************************************)

\* The tokenizer has returned None since the latest feed_str
DrainedAfterFeed == nfeeds > 0 /\ returned = Some(None)

\* Where the end tag of the fed text opens, and the positions after its "</"
\* that hold whitespace or '>'
EndTagOpens == PairsFrom(fed, "<", "/", 1)
EndTagDelims == {i \in (Least(EndTagOpens) + 2)..Len(fed) : fed[i] \in WS \cup {">"}}
\* The positions after position i that hold no whitespace
AfterSpace(i) == {j \in (i + 1)..Len(fed) : ~(fed[j] \in WS)}
\* The results that come before those of the end tag: the ElementStart of
\* the start tag "<a>", once it was fed
StartsBefore == IF Len(fed) >= 3 /\ SubSeq(fed, 1, 3) = <<"<", "a", ">">> THEN 1 ELSE 0

\* C31: the ElementEnd of "</name" is returned, and the scope popped, once:
\* when the first whitespace or the '>' after the name is consumed; further
\* whitespace and the closing '>' return nothing, and another character
\* before the '>' returns "Expected '>' to close tag, or LWS" after the
\* ElementEnd
C31_EndTagEmittedOnce ==
    /\ ReturnedEvent("ElementEnd") =>
          /\ EndTagOpens # {} /\ EndTagDelims # {}
          /\ Consumed = Least(EndTagDelims)
          /\ parser.st = IF fed[Consumed] = ">" THEN "OutsideTag" ELSE "ExpectSpaceOrClose"
    /\ DrainedAfterFeed =>
          IF EndTagOpens = {} \/ EndTagDelims = {}
            THEN /\ Len(results) = StartsBefore
                 /\ Len(parser.namespaces) = 1 + StartsBefore
          ELSE LET i == Least(EndTagDelims)
                   n == StartsBefore
               IN /\ Len(results) > n
                  /\ results[n + 1] =
                        Ok(ElementEnd(SubSeq(fed, Least(EndTagOpens) + 2, i - 1), None, None))
                  /\ Len(parser.namespaces) = n
                  /\ IF fed[i] = ">" \/ AfterSpace(i) = {} \/ fed[Least(AfterSpace(i))] = ">"
                       THEN Len(results) = n + 1
                       ELSE /\ Len(results) = n + 2
                            /\ results[n + 2] =
                                  Err(ParserError(1 + Cardinality(LineFeeds(Least(AfterSpace(i)))),
                                                  Least(AfterSpace(i)) - LastLineFeed(Least(AfterSpace(i))),
                                                  "Expected '>' to close tag, or LWS"))

\* C31 witness: "</a", a space, a line feed and '>' came in two chunks or
\* more; one ElementEnd was returned and the tokenizer is outside the tag
C31_Witness ==
    /\ nfeeds >= 2
    /\ DrainedAfterFeed
    /\ fed = <<"<", "/", "a", " ", "\n", ">">>
    /\ results = <<Ok(ElementEnd(<<"a">>, None, None))>>
    /\ parser.st = "OutsideTag"

\* The namespace URIs an element binds with its own xmlns:p attributes
Declared(elem) ==
    {elem.attributes[key] : key \in {k \in DOMAIN elem.attributes : k[2] = Some(XMLNS_NS)}}

\* The child elements of an element
ChildElems(elem) ==
    {elem.children[k].elem : k \in {j \in 1..Len(elem.children) :
                                        elem.children[j].kind = "ElementNode"}}

\* The elements of the tree under elem have a prefix for each of the two
\* fixed namespaces and for every URI of their own declarations
RECURSIVE CarriesOwn(_)
CarriesOwn(elem) ==
    /\ {XML_NS, XMLNS_NS} \cup Declared(elem) \subseteq DOMAIN elem.prefixes
    /\ \A child \in ChildElems(elem) : CarriesOwn(child)

\* They also have one for every URI in `inherited`, the declarations of the
\* ancestors of elem, and for those of their ancestors under elem
RECURSIVE CarriesInherited(_, _)
CarriesInherited(elem, inherited) ==
    /\ inherited \subseteq DOMAIN elem.prefixes
    /\ \A child \in ChildElems(elem) :
          CarriesInherited(child, inherited \cup Declared(elem))

\* C32: the prefix table of every element the builder builds holds the two
\* fixed bindings, the bindings declared by the xmlns:p attributes of its
\* ancestors, and those declared by its own
C32_PrefixesInherited ==
    \A root \in Yielded : CarriesOwn(root) /\ CarriesInherited(root, {})

\* C33: in a well-nested text every ElementEnd has the name, the prefix and
\* the namespace of the ElementStart it closes, also when the element
\* declares the binding of its own name and when a descendant rebinds the
\* prefix or the default namespace
C33_EndMatchesStart ==
    \A k \in 1..Len(results) :
        IsEvent(results[k], "ElementEnd") =>
            /\ OpenStarts(results, k - 1) # <<>>
            /\ LET start == results[Last(OpenStarts(results, k - 1))].val
                    end == results[k].val
               IN /\ end.name = start.name
                  /\ end.prefix = start.prefix
                  /\ end.ns = start.ns

\* C33 witness: <p:a xmlns:p='u'><p:a xmlns:p='v'></p:a ></p:a> was
\* tokenized: the inner element and its end are in v, the outer ones in u
C33_Witness ==
    /\ AllDrained
    /\ Len(results) = 4
    /\ \A k \in 1..4 : results[k].ok
    /\ results[1].val.ns = Some(<<"u">>) /\ results[1].val.type = "ElementStart"
    /\ results[2].val.ns = Some(<<"v">>) /\ results[2].val.type = "ElementStart"
    /\ results[3].val.ns = Some(<<"v">>) /\ results[3].val.type = "ElementEnd"
    /\ results[4].val.ns = Some(<<"u">>) /\ results[4].val.type = "ElementEnd"
    /\ results[4].val.prefix = Some(<<"p">>)

(***************************************************************************)
(* Properties of formatting parsed elements                                *)
(***************************************************************************)

\* The tokenizer and the builder have reported no error so far
NoErrorSoFar ==
    /\ is_none(panic)
    /\ \A i \in 1..Len(results) : results[i].ok
    /\ \A i \in 1..Len(outputs) : outputs[i] = None \/ unwrap(outputs[i]).ok

\* The element the caller holds is a root the builder yielded
HoldsRoot == tree # None /\ unwrap(tree) \in Yielded
\* The element the caller holds is a descendant of such a root
HoldsDescendant == tree # None /\ ~(unwrap(tree) \in Yielded)

\* Formatting ended in the abort with this message
Aborted(msg) ==
    rendered # None /\ IsPanic(unwrap(rendered)) /\ unwrap(rendered).panicked = msg

\* C34: formatting the root the builder yields for a text accepted without
\* error never aborts with "No namespace prefix bound"
C34_RootRendersWithoutAbort ==
    (HoldsRoot /\ NoErrorSoFar) => ~Aborted("No namespace prefix bound")

\* C35: formatting on its own a descendant of a parsed tree never aborts
\* with "No namespace prefix bound"
C35_DescendantRendersWithoutAbort ==
    (HoldsDescendant /\ NoErrorSoFar) => ~Aborted("No namespace prefix bound")

\* C38: parsing the fed text again with a fresh Parser and ElementBuilder
\* can only give the element the caller holds, prefix table included, and
\* formatting it can only give the text that was rendered, whatever the
\* order in which the attribute maps are visited
C38_ParseAndRenderDeterministic ==
    (HoldsRoot /\ AllDrained /\ NoErrorSoFar /\ rendered # None) =>
        /\ from_str(fed) = {Ok(unwrap(tree))}
        /\ UNION {fmt(r.val) : r \in from_str(fed)} = {unwrap(rendered)}

(***************************************************************************)
(* Properties of the tokenizer's internal state                            *)
(***************************************************************************)

\* The aborts of the tokenizer that no input should reach
InternalAborts ==
    {"Internal error: No element name set",
     "Internal error: In attribute value, but no delimiter set",
     "Internal error: In attribute value, but no attribute name set",
     "Internal error: Empty namespace stack",
     "attempt to subtract with overflow"}

\* What the states that read a pending value find set
PendingValuesSet ==
    /\ parser.st \in {"InTag", "ExpectClose"} => is_some(parser.name)
    /\ parser.st = "InAttrValue" =>
          /\ is_some(parser.delim)
          /\ is_some(parser.attr)
          /\ parser.namespaces # <<>>

\* A comment or a CDATA section that was just closed had its two terminator
\* characters at the end of the buffer
TerminatorBuffered ==
    /\ ReturnedEvent("Comment") =>
          Len(AtP.buf) >= 2 /\ SubSeq(AtP.buf, Len(AtP.buf) - 1, Len(AtP.buf)) = <<"-", "-">>
    /\ ReturnedEvent("CDATA") =>
          Len(AtP.buf) >= 2 /\ SubSeq(AtP.buf, Len(AtP.buf) - 1, Len(AtP.buf)) = <<"]", "]">>

NoInternalAbort == is_none(panic) \/ ~(unwrap(panic) \in InternalAborts)

\* C36 as stated: no input reaches an internal-error abort; in every state
\* InTag and ExpectClose have a pending element name, InAttrValue has a
\* delimiter, a pending attribute name and a non-empty scope stack, and a
\* closed comment or CDATA section had its two terminator characters in the
\* buffer
C36_Original ==
    /\ NoInternalAbort
    /\ PendingValuesSet
    /\ TerminatorBuffered

\* C36: no input reaches an internal-error abort; as long as the tokenizer
\* has reported no error, InTag and ExpectClose have a pending element name,
\* InAttrValue has a delimiter, a pending attribute name and a non-empty
\* scope stack; a closed comment or CDATA section had its two terminator
\* characters in the buffer
C36_NoInternalAbort ==
    /\ NoInternalAbort
    /\ ~parser.has_error => PendingValuesSet
    /\ TerminatorBuffered

\* C36 witness: after "</a>" emptied the scope stack, the value of an
\* attribute of the next tag is being read
C36_Witness ==
    /\ DrainedAfterFeed
    /\ fed = <<"<", "/", "a", ">", "<", "b", " ", "c", "=", "'">>
    /\ parser.st = "InAttrValue"
    /\ Len(parser.namespaces) = 1
    /\ ~parser.has_error

\* The states that do not use the counter level
LevelFreeStates ==
    {"OutsideTag", "TagOpened", "InTagName", "InCloseTagName", "InTag", "InExclamationMark"}

\* C40: in OutsideTag, TagOpened, InTagName, InCloseTagName, InTag and
\* InExclamationMark level is 0; so InCDATAOpening and InDoctype never have
\* a level past their six-character pattern when they index it, no
\* "index out of bounds" abort is reached, and the first character of an
\* attribute name is read with level 0
C40_LevelZeroOutsideItsStates ==
    /\ parser.st \in LevelFreeStates => parser.level = 0
    /\ parser.st = "InCDATAOpening" => parser.level \in 0..(Len(CDATA_PATTERN) - 1)
    /\ parser.st = "InDoctype" => parser.level \in 0..(Len(DOCTYPE_PATTERN) + 1)
    /\ panic # Some("index out of bounds")
    /\ (/\ parser.st = "InAttrName"
        /\ ~parser.has_error
        /\ parser.data = <<>>
        /\ fed # <<>>
        /\ ~(Last(fed) \in WS)) => parser.level = 0

\* C40 witness: a processing instruction with a '?' in its text and a
\* comment have ended, and three characters of the opening of a CDATA
\* section have been matched
C40_Witness ==
    /\ DrainedAfterFeed
    /\ \E k \in 1..Len(results) : IsEvent(results[k], "PI") /\ results[k].val.text = <<"p", "i", " ", "?", "x">>
    /\ \E k \in 1..Len(results) : IsEvent(results[k], "Comment")
    /\ parser.st = "InCDATAOpening"
    /\ parser.level = 3

(***************************************************************************)
(* Properties of text at the end of the input                              *)
(***************************************************************************)

\* The position of the last '>' among the first k characters fed, 0 with
\* none
LastGreater(k) ==
    IF {i \in 1..k : fed[i] = ">"} = {} THEN 0
    ELSE CHOOSE i \in 1..k : fed[i] = ">" /\ \A j \in (i + 1)..k : fed[j] # ">"

\* The '<' among the first k characters fed that end a text that is not
\* empty
TextEnds(k) == {i \in 2..k : fed[i] = "<" /\ fed[i - 1] # ">"}

\* C37: text after the last markup is not returned when the queue runs
\* dry: next returns None and the text stays in the buffer; a Characters
\* event is returned only when a '<' is consumed, and it holds the whole
\* text since the last markup, in however many chunks it was fed; an input
\* with no '<' gives no event
C37_TrailingTextBuffered ==
    /\ ReturnedEvent("Characters") =>
          /\ AtC = "<"
          /\ LastResult.val.text = SubSeq(fed, LastGreater(Consumed) + 1, Consumed - 1)
    /\ Count(results, "Characters", Len(results)) = Cardinality(TextEnds(Consumed))
    /\ (DrainedAfterFeed /\ parser.st = "OutsideTag") =>
          parser.buf = SubSeq(fed, LastGreater(Len(fed)) + 1, Len(fed))
    /\ (\A i \in 1..Len(fed) : fed[i] # "<") => results = <<>>

\* C37 witness: "tt<" came in three chunks of one character; nothing was
\* returned before the '<', which returned the one event Characters("tt")
C37_Witness ==
    /\ nfeeds = 3
    /\ fed = <<"t", "t", "<">>
    /\ results = <<Ok(Characters(<<"t", "t">>))>>
    /\ DrainedAfterFeed

(***************************************************************************)
(* Properties of the builder's stacks                                      *)
(***************************************************************************)

\* C39: in a builder made by new() on which set_default_ns is not called,
\* whatever the events, the stack of default namespaces is never longer
\* than the stack of elements,
\* and the default namespace of the top element is the top of the stack of
\* default namespaces, None when that stack is empty
C39_DefaultNsStackFollowsElements ==
    /\ Len(builder.default_ns) <= Len(builder.stack)
    /\ builder.stack # <<>> =>
          Last(builder.stack).default_ns =
              IF builder.default_ns = <<>> THEN None ELSE Last(builder.default_ns)

\* C39 witness: an element without a declaration, one that declares u, one
\* that cancels the default, then an end tag; the stack of default
\* namespaces is shorter than the stack of elements and its top Some(u) is
\* the default namespace of the top element
C39_Witness ==
    /\ Len(handled) = 4
    /\ IsEvent(handled[4], "ElementEnd")
    /\ Len(builder.stack) = 2
    /\ builder.default_ns = <<Some(<<"u">>)>>
    /\ Last(builder.stack).default_ns = Some(<<"u">>)
    /\ builder.stack[1].default_ns = None
    /\ before[4].default_ns = <<Some(<<"u">>), None>>
====
